---- MODULE Spec2Model ----
(***************************************************************************)
(* Content pipeline of the summarising backend: the remote scrape with its *)
(* retry wrapper (firecrawl_extractor.py), the /api/firecrawl/scrape       *)
(* endpoint with its local fallback (app.py), the normaliser and the       *)
(* orchestrator (page_processor.py) and the model call with its response   *)
(* parsing (gemini_summarizer.py).                                         *)
(*                                                                         *)
(* Text is a sequence of one-character strings.  Dictionaries are records  *)
(* that carry every field plus a set "keys" naming the fields present.     *)
(***************************************************************************)
EXTENDS Integers, Sequences, FiniteSets, TLC

(***************************************************************************)
(* Python string operations, on sequences of characters.                   *)
(***************************************************************************)

\* The whitespace characters of the modelled alphabet (str.strip, str.split).
WS == {" ", "\n"}

Min2(a, b) == IF a <= b THEN a ELSE b

Max2(a, b) == IF a >= b THEN a ELSE b

RECURSIVE Pow2(_)
Pow2(n) == IF n <= 0 THEN 1 ELSE 2 * Pow2(n - 1)

\* str.lstrip()
RECURSIVE LStrip(_)
LStrip(s) == IF s # <<>> /\ Head(s) \in WS THEN LStrip(Tail(s)) ELSE s

\* str.rstrip()
RECURSIVE RStrip(_)
RStrip(s) ==
    IF s # <<>> /\ s[Len(s)] \in WS THEN RStrip(SubSeq(s, 1, Len(s) - 1)) ELSE s

\* str.strip()
Strip(s) == RStrip(LStrip(s))

\* str.lstrip(chars)
RECURSIVE LStripChars(_, _)
LStripChars(s, cs) ==
    IF s # <<>> /\ Head(s) \in cs THEN LStripChars(Tail(s), cs) ELSE s

\* str.startswith(p)
StartsWith(s, p) == Len(s) >= Len(p) /\ SubSeq(s, 1, Len(p)) = p

\* str.find(p) + 1: the position of the first occurrence of p in s, 0 if none.
Find(s, p) ==
    LET hits == {i \in 1..(Len(s) - Len(p) + 1) : SubSeq(s, i, i + Len(p) - 1) = p}
    IN  IF hits = {} THEN 0 ELSE CHOOSE i \in hits : \A j \in hits : i <= j

\* p in s
Contains(s, p) == Find(s, p) # 0

\* s.rsplit(p, 1), a split on the last occurrence: the variant of SplitOnce
\* that C9's formula must tell from it.
SplitLast(s, p) ==
    LET hits == {i \in 1..(Len(s) - Len(p) + 1) : SubSeq(s, i, i + Len(p) - 1) = p}
        i == CHOOSE h \in hits : \A j \in hits : h >= j
    IN  <<SubSeq(s, 1, i - 1), SubSeq(s, i + Len(p), Len(s))>>

\* s.split(p, 1) for p in s: the text before and after the first occurrence.
SplitOnce(s, p) ==
    LET i == Find(s, p)
    IN  <<SubSeq(s, 1, i - 1), SubSeq(s, i + Len(p), Len(s))>>

\* str.splitlines(): no line for the empty text, none after a final newline.
RECURSIVE SplitLines(_)
SplitLines(s) ==
    IF s = <<>> THEN <<>>
    ELSE LET i == Find(s, <<"\n">>)
         IN  IF i = 0 THEN <<s>>
             ELSE <<SubSeq(s, 1, i - 1)>> \o SplitLines(SubSeq(s, i + 1, Len(s)))

\* len(str.split()): the number of maximal runs of non-whitespace characters.
WordCount(s) ==
    Cardinality({i \in 1..Len(s) : s[i] \notin WS /\ (i = 1 \/ s[i - 1] \in WS)})

\* round(n / d) for naturals n and d > 0: Python rounds a half to the even side.
PyRoundDiv(n, d) ==
    LET q == n \div d
        r == n % d
    IN  IF 2 * r < d THEN q
        ELSE IF 2 * r > d THEN q + 1
        ELSE IF q % 2 = 0 THEN q ELSE q + 1

\* [f(x) for x in s]
MapSeq(s, F(_)) == [i \in 1..Len(s) |-> F(s[i])]

(***************************************************************************)
(* Python's re on sequences of characters.  A pattern is a tree of records *)
(* (op: "set", "any", "eps", "cat", "alt", "star", "lazy", "grp", "bol",   *)
(* "eol"); Match lists the ways the pattern matches at a position in the   *)
(* order the backtracking matcher tries them, so its head is re's match.   *)
(***************************************************************************)

ReSet(cs) == [op |-> "set", cs |-> cs, neg |-> FALSE]

ReNot(cs) == [op |-> "set", cs |-> cs, neg |-> TRUE]

ReEps == [op |-> "eps"]

ReCat(a, b) == [op |-> "cat", a |-> a, b |-> b]

ReAlt(a, b) == [op |-> "alt", a |-> a, b |-> b]

\* a* (greedy) and a*? (lazy)
ReStar(a) == [op |-> "star", a |-> a]

ReLazy(a) == [op |-> "lazy", a |-> a]

\* a+ and a?
RePlus(a) == ReCat(a, ReStar(a))

ReOpt(a) == ReAlt(a, ReEps)

\* (a): the pattern's one capturing group
ReGrp(a) == [op |-> "grp", a |-> a]

\* ^ and $ under re.MULTILINE
ReBol == [op |-> "bol"]

ReEol == [op |-> "eol"]

\* A literal text.
RECURSIVE ReLit(_)
ReLit(t) ==
    IF t = <<>> THEN ReEps
    ELSE IF Len(t) = 1 THEN ReSet({t[1]})
    ELSE ReCat(ReSet({t[1]}), ReLit(Tail(t)))

\* \s, \d and "." (without re.DOTALL "." does not match a newline)
ReSpace == ReSet(WS)

Digits == {"0", "1", "2", "3", "4", "5", "6", "7", "8", "9"}

ReDigit == ReSet(Digits)

ReDot == ReNot({"\n"})

ReDotAll == ReNot({})

RECURSIVE FlattenSeq(_)
FlattenSeq(ss) == IF ss = <<>> THEN <<>> ELSE Head(ss) \o FlattenSeq(Tail(ss))

\* The matches of re in s that start at position i, in the matcher's order:
\* e is the position after the match, g the group's <<start, end>>.
RECURSIVE Match(_, _, _, _)
Match(re, s, i, g) ==
    CASE re.op = "set" ->
           IF i <= Len(s) /\ ((s[i] \in re.cs) # re.neg)
           THEN <<[e |-> i + 1, g |-> g]>> ELSE <<>>
      [] re.op = "eps" -> <<[e |-> i, g |-> g]>>
      [] re.op = "bol" ->
           IF i = 1 \/ s[i - 1] = "\n" THEN <<[e |-> i, g |-> g]>> ELSE <<>>
      [] re.op = "eol" ->
           IF i = Len(s) + 1 \/ s[i] = "\n" THEN <<[e |-> i, g |-> g]>> ELSE <<>>
      [] re.op = "cat" ->
           LET first == Match(re.a, s, i, g)
           IN  FlattenSeq([k \in 1..Len(first) |->
                               Match(re.b, s, first[k].e, first[k].g)])
      [] re.op = "alt" -> Match(re.a, s, i, g) \o Match(re.b, s, i, g)
      [] re.op = "grp" ->
           LET inner == Match(re.a, s, i, g)
           IN  [k \in 1..Len(inner) |-> [e |-> inner[k].e, g |-> <<i, inner[k].e>>]]
      [] re.op \in {"star", "lazy"} ->
           LET once == SelectSeq(Match(re.a, s, i, g), LAMBDA r : r.e > i)
               more == FlattenSeq([k \in 1..Len(once) |->
                                       Match(re, s, once[k].e, once[k].g)])
               stop == <<[e |-> i, g |-> g]>>
           IN  IF re.op = "star" THEN more \o stop ELSE stop \o more

\* re.sub(re, repl, s) for a pattern that matches no empty text: repl.lit is
\* the replacement text, followed by the group's text when repl.grp (\1).
RECURSIVE SubFrom(_, _, _, _)
SubFrom(re, repl, s, pos) ==
    IF pos > Len(s) THEN <<>>
    ELSE LET m == Match(re, s, pos, <<1, 1>>)
         IN  IF m = <<>> \/ m[1].e = pos
             THEN <<s[pos]>> \o SubFrom(re, repl, s, pos + 1)
             ELSE repl.lit
                  \o (IF repl.grp THEN SubSeq(s, m[1].g[1], m[1].g[2] - 1) ELSE <<>>)
                  \o SubFrom(re, repl, s, m[1].e)

ReSub(re, repl, s) == SubFrom(re, repl, s, 1)

Drop == [lit |-> <<>>, grp |-> FALSE]

Group1 == [lit |-> <<>>, grp |-> TRUE]

With(t) == [lit |-> t, grp |-> FALSE]

\* The concatenation of a list of patterns.
RECURSIVE ReSeq(_)
ReSeq(rs) ==
    IF rs = <<>> THEN ReEps
    ELSE IF Len(rs) = 1 THEN rs[1]
    ELSE ReCat(rs[1], ReSeq(Tail(rs)))

\* sep.join(parts)
RECURSIVE Join(_, _)
Join(parts, sep) ==
    IF parts = <<>> THEN <<>>
    ELSE IF Len(parts) = 1 THEN parts[1]
    ELSE parts[1] \o sep \o Join(Tail(parts), sep)

\* str.endswith(p)
EndsWith(s, p) == Len(s) >= Len(p) /\ SubSeq(s, Len(s) - Len(p) + 1, Len(s)) = p

(***************************************************************************)
(* PageProcessor: the two normalisers.                                     *)
(***************************************************************************)

\* \[\d+\]|\[citation needed\]|\[note \d+\]
ReCitation ==
    ReAlt(ReSeq(<<ReSet({"["}), RePlus(ReDigit), ReSet({"]"})>>),
    ReAlt(ReLit(<<"[", "c", "i", "t", "a", "t", "i", "o", "n", " ",
                  "n", "e", "e", "d", "e", "d", "]">>),
          ReSeq(<<ReLit(<<"[", "n", "o", "t", "e", " ">>), RePlus(ReDigit),
                  ReSet({"]"})>>)))

\* \[(.*?)\]\([^)]+\)
ReLink ==
    ReSeq(<<ReSet({"["}), ReGrp(ReLazy(ReDot)), ReLit(<<"]", "(">>),
            RePlus(ReNot({")"})), ReSet({")"})>>)

\* clean_content_regex: the substitutions of lines 201-228, in order.
clean_content_regex(content) ==
    LET c1  == ReSub(ReCat(ReSet({"!"}), ReLink), Drop, content)
        c2  == ReSub(ReLink, Group1, c1)
        c3  == ReSub(ReSeq(<<ReLit(<<"<", "i", "m", "g">>), RePlus(ReNot({">"})),
                             ReSet({">"})>>), Drop, c2)
        c4  == ReSub(ReSeq(<<ReLit(<<"{", "{">>), RePlus(ReNot({"}"})),
                             ReLit(<<"}", "}">>)>>), Drop, c3)
        c5  == ReSub(ReSeq(<<ReLit(<<"<", "!", "-", "-">>), ReLazy(ReDotAll),
                             ReLit(<<"-", "-", ">">>)>>), Drop, c4)
        c6  == ReSub(ReCitation, Drop, c5)
        c7  == ReSub(ReSeq(<<ReLit(<<"-", "-", "-">>), ReStar(ReSet({"-"}))>>),
                     With(<<"-", "-", "-">>), c6)
        c8  == ReSub(ReSeq(<<ReSet({"|"}), ReStar(ReSpace), RePlus(ReSet({"-"})),
                             ReStar(ReSpace), ReSet({"|"})>>), With(<<"\n">>), c7)
        c9  == ReSub(ReCat(ReSet({"|"}), ReStar(ReSpace)), With(<<" ">>), c8)
        c10 == ReSub(ReSeq(<<ReLit(<<"\n", "\n", "\n">>), ReStar(ReSet({"\n"}))>>),
                     With(<<"\n", "\n">>), c9)
    IN  c10

\* process_inline_children (lines 39-60): the text of an inline token's
\* children, links reduced to their text, images and formatting dropped.
process_inline_children(children) ==
    LET Kept(child) == child.type \in {"text", "softbreak", "hardbreak"}
        Text(child) ==
            IF child.type = "text"
            THEN ReSub(RePlus(ReSpace), With(<<" ">>), child.content)
            ELSE <<" ">>
    IN  Strip(Join(MapSeq(SelectSeq(children, Kept), Text), <<" ">>))

\* What one block token appends to text_content (lines 63-100).
RECURSIVE Repeat(_, _)
Repeat(c, n) == IF n <= 0 THEN <<>> ELSE <<c>> \o Repeat(c, n - 1)

BlockParts(text_content, token) ==
    CASE token.type = "heading_open" ->
           Append(text_content, Repeat("#", token.level) \o <<" ">>)
      [] token.type = "heading_close" -> Append(text_content, <<"\n">>)
      [] token.type = "paragraph_close" -> Append(text_content, <<"\n", "\n">>)
      [] token.type \in {"bullet_list_close", "ordered_list_close"} ->
           IF text_content # <<>>
              /\ ~EndsWith(text_content[Len(text_content)], <<"\n", "\n">>)
           THEN Append(text_content, <<"\n">>)
           ELSE text_content
      [] token.type = "list_item_open" -> Append(text_content, <<"*", " ">>)
      [] token.type = "list_item_close" -> Append(text_content, <<"\n">>)
      [] token.type = "inline" /\ token.children # <<>> ->
           IF process_inline_children(token.children) # <<>>
           THEN Append(text_content, process_inline_children(token.children))
           ELSE text_content
      [] OTHER -> text_content

RECURSIVE BlockLoop(_, _)
BlockLoop(text_content, tokens) ==
    IF tokens = <<>> THEN text_content
    ELSE BlockLoop(BlockParts(text_content, Head(tokens)), Tail(tokens))

\* The clean-up of the joined text (lines 106-117).
md_cleanup(result) ==
    LET r1 == ReSub(ReCat(ReOpt(ReSpace), ReCitation), Drop, result)
        r2 == ReSub(ReSeq(<<ReSet({"\n"}), ReStar(ReSpace), ReSet({"\n"})>>),
                    With(<<"\n", "\n">>), r1)
        r3 == ReSub(ReAlt(ReCat(ReBol, RePlus(ReSpace)), ReCat(RePlus(ReSpace), ReEol)),
                    Drop, r2)
        r4 == ReSub(ReSeq(<<ReLit(<<"\n", "\n", "\n">>), ReStar(ReSet({"\n"}))>>),
                    With(<<"\n", "\n">>), r3)
        r5 == ReSub(ReSeq(<<ReBol, ReSet({"*"}), ReStar(ReSpace), ReEol, ReSet({"\n"})>>),
                    Drop, r4)
    IN  Strip(r5)

\* extract_text_from_markdown, from the token stream md_parser.parse returns
\* for the markdown text (lines 36-117).
extract_text_from_markdown(tokens) == md_cleanup(FlattenSeq(BlockLoop(<<>>, tokens)))

(***************************************************************************)
(* GeminiSummarizer.summarize: parsing of the model's response.            *)
(***************************************************************************)

separator ==
    <<"-", "-", "-", "K", "E", "Y", "P", "O", "I", "N", "T", "S", "-", "-", "-">>

words_per_minute == 230

\* The key points taken from the text after the separator (lines 149-152).
ExtractKeyPoints(key_points_text) ==
    LET lines == SplitLines(key_points_text)
        IsBullet(line) ==
            /\ Strip(line) # <<>>
            /\ (StartsWith(Strip(line), <<"*">>) \/ StartsWith(Strip(line), <<"-">>))
        Point(line) == Strip(LStripChars(Strip(line), {"*", "-"}))
        NonEmpty(point) == point # <<>>
    IN  SelectSeq(MapSeq(SelectSeq(lines, IsBullet), Point), NonEmpty)

\* A variant of SplitSummary that trims the response also when it has no
\* separator: C10's formula must tell it from SplitSummary.
SplitSummaryStripped(full_response_text) ==
    IF Contains(full_response_text, separator)
    THEN Strip(SplitOnce(full_response_text, separator)[1])
    ELSE Strip(full_response_text)

\* summary_text after the split, before the emptiness fallback (lines 134-166).
SplitSummary(full_response_text) ==
    IF Contains(full_response_text, separator)
    THEN Strip(SplitOnce(full_response_text, separator)[1])
    ELSE full_response_text

\* key_points (lines 136-166).
SplitKeyPoints(full_response_text) ==
    IF Contains(full_response_text, separator)
    THEN ExtractKeyPoints(Strip(SplitOnce(full_response_text, separator)[2]))
    ELSE <<>>

\* summary_text as returned: the full response when the split left it empty
\* (lines 168-171).
SummaryText(full_response_text) ==
    IF SplitSummary(full_response_text) = <<>>
    THEN full_response_text
    ELSE SplitSummary(full_response_text)

\* The dictionary summarize returns for a response (lines 173-189).
ParseResponse(full_response_text, title) ==
    LET summary_text == SummaryText(full_response_text)
        word_count == WordCount(summary_text)
    IN  [keys |-> {"success", "summary", "title", "keyPoints", "readingTime", "wordCount"},
         success |-> TRUE,
         summary |-> summary_text,
         title |-> title,
         keyPoints |-> SplitKeyPoints(full_response_text),
         readingTime |-> PyRoundDiv(word_count, words_per_minute),
         wordCount |-> word_count]

(***************************************************************************)
(* The retry policy: tenacity's retry decorator as the two call sites      *)
(* configure it.                                                           *)
(***************************************************************************)

\* stop_after_attempt(3) and wait_exponential(multiplier=1, min=2, max=10)
MaxAttempts == 3

WaitMultiplier == 1

WaitMin == 2

WaitMax == 10

GenMaxAttempts == 3

GenWaitMultiplier == 1

GenWaitMin == 2

GenWaitMax == 10

\* The seconds slept after attempt attempt_number failed: the library computes
\* multiplier * 2 ** (attempt_number - 1), clamped to [min, max].
wait_exponential(multiplier, min, max, attempt_number) ==
    Max2(Max2(0, min), Min2(multiplier * Pow2(attempt_number - 1), max))

\* retry_if_exception_type((Timeout, ConnectionError))
ScrapeRetryable == {"Timeout", "ConnectionError"}

\* retry_if_exception_type((DeadlineExceeded, ServiceUnavailable, ResourceExhausted))
GenRetryable == {"DeadlineExceeded", "ServiceUnavailable", "ResourceExhausted"}

\* Two variants of RetryScrape: stop_after_attempt(4), which C4's formula must
\* tell from it, and retry_if_exception_type(RequestException), which C6's must.
RetryScrapeOneMore(exc, attempt_number) ==
    exc \in ScrapeRetryable /\ attempt_number < MaxAttempts + 1

RetryScrapeAnyRequestException(exc, attempt_number) ==
    /\ exc \in ScrapeRetryable \cup {"TooManyRedirects", "HTTPError"}
    /\ attempt_number < MaxAttempts

\* A variant of RetryScrape without stop_after_attempt: C27's formula must
\* tell it from RetryScrape.
RetryScrapeForever(exc, attempt_number) == exc \in ScrapeRetryable

\* Whether the wrapper of _make_scrape_request sleeps and calls again after
\* attempt attempt_number raised exc.
RetryScrape(exc, attempt_number) ==
    exc \in ScrapeRetryable /\ attempt_number < MaxAttempts

\* A variant of RetryGenerate, retry_if_exception_type(GoogleAPICallError):
\* C12's formula must tell it from RetryGenerate.
RetryGenerateAnyApiError(exc, attempt_number) ==
    exc \in GenRetryable \cup {"InvalidArgument"} /\ attempt_number < GenMaxAttempts

\* The same for _generate_with_retry.
RetryGenerate(exc, attempt_number) ==
    exc \in GenRetryable /\ attempt_number < GenMaxAttempts

(***************************************************************************)
(* The inputs: what the remote service, the page and the model answer.     *)
(***************************************************************************)

ABSENT == "<absent>"

\* The url argument: it is copied into the request and the result, and nothing
\* branches on it.
Urls == {"https://example.com/article"}

\* data['markdown']: the text is empty or not, and tokens is what the
\* markdown parser makes of it.
MdAbsent == [present |-> FALSE, empty |-> TRUE, tokens |-> <<>>]

MdEmpty == [present |-> TRUE, empty |-> TRUE, tokens |-> <<>>]

\* "  \n": not empty, and no token
MdBlank == [present |-> TRUE, empty |-> FALSE, tokens |-> <<>>]

Tok(type) == [type |-> type, level |-> 0, children |-> <<>>]

Inline(children) == [type |-> "inline", level |-> 0, children |-> children]

Child(type, content) == [type |-> type, content |-> content]

\* "![a](u)"
MdImageOnly ==
    [present |-> TRUE, empty |-> FALSE,
     tokens |-> <<Tok("paragraph_open"),
                  Inline(<<Child("image", <<"a">>)>>),
                  Tok("paragraph_close")>>]

\* "## a b\n\nsee [a](u) [1]\n\n* b\n"
MdArticle ==
    [present |-> TRUE, empty |-> FALSE,
     tokens |-> <<[type |-> "heading_open", level |-> 2, children |-> <<>>],
                  Inline(<<Child("text", <<"a", " ", "b">>)>>),
                  Tok("heading_close"),
                  Tok("paragraph_open"),
                  Inline(<<Child("text", <<"s", "e", "e", " ">>),
                           Child("link_open", <<>>),
                           Child("text", <<"a">>),
                           Child("link_close", <<>>),
                           Child("text", <<" ", "[", "1", "]">>)>>),
                  Tok("paragraph_close"),
                  Tok("bullet_list_open"),
                  Tok("list_item_open"),
                  Tok("paragraph_open"),
                  Inline(<<Child("text", <<"b">>)>>),
                  Tok("paragraph_close"),
                  Tok("list_item_close"),
                  Tok("bullet_list_close")>>]

MdVals == {MdAbsent, MdEmpty, MdBlank, MdImageOnly, MdArticle}

\* data['html']
HtmlAbsent == [present |-> FALSE, text |-> <<>>]

HtmlVals ==
    {HtmlAbsent,
     [present |-> TRUE, text |-> <<>>],
     [present |-> TRUE, text |-> <<"<", "i", "m", "g", " ", "a", ">">>],
     [present |-> TRUE, text |-> <<"<", "p", ">", "a", "[", "1", "]">>]}

\* The service's data payload: absent, null, or an object whose metadata is
\* absent, null or an object with or without a title.
NoData ==
    [present |-> FALSE, isNull |-> FALSE, metadata |-> "absent", title |-> ABSENT,
     markdown |-> MdAbsent, html |-> HtmlAbsent]

NullData == [NoData EXCEPT !.present = TRUE, !.isNull = TRUE]

ArticleData ==
    [present |-> TRUE, isNull |-> FALSE, metadata |-> "dict", title |-> "An article",
     markdown |-> MdArticle, html |-> HtmlAbsent]

\* Every metadata shape with one article, and every pair of markdown and html
\* with one title.
DataVals ==
    {NullData}
    \cup {[ArticleData EXCEPT !.metadata = m[1], !.title = m[2]] :
            m \in {<<"absent", ABSENT>>, <<"null", ABSENT>>, <<"dict", ABSENT>>,
                   <<"dict", "">>, <<"dict", "An article">>}}
    \cup {[ArticleData EXCEPT !.markdown = md, !.html = h] :
            md \in MdVals, h \in HtmlVals}

\* The response body: not JSON, JSON that is no object, or an object.
\* success is "absent", "true", "false" or "other" (any other JSON value).
NoBody ==
    [json |-> "undecodable", success |-> "absent", data |-> NoData,
     error |-> ABSENT, details |-> ABSENT]

\* Objects that report success with every data payload, and objects with
\* every success, error and details field around two payloads.
Bodies ==
    {NoBody, [NoBody EXCEPT !.json = "nondict"]}
    \cup {[NoBody EXCEPT !.json = "dict", !.success = "true", !.data = d] :
            d \in DataVals}
    \cup {[json |-> "dict", success |-> sv, data |-> d, error |-> e, details |-> dt] :
            sv \in {"absent", "true", "false", "other"},
            d \in {NoData, ArticleData},
            e \in {ABSENT, "", "Rate limit exceeded"},
            dt \in {ABSENT, "", "retry later"}}

Statuses == {200, 201, 302, 404, 500}

\* What one requests.post does: it raises, or it returns a response.
HttpOutcomes ==
    {[exc |-> x, status |-> 0, body |-> NoBody] :
        x \in {"Timeout", "ConnectionError", "TooManyRedirects", "RuntimeError"}}
    \cup {[exc |-> "", status |-> st, body |-> b] : st \in Statuses, b \in Bodies}

\* The exceptions that are requests.exceptions.RequestException.
RequestExceptions == {"Timeout", "ConnectionError", "TooManyRedirects", "HTTPError"}

\* response.raise_for_status(), after requests.post: the exception one call
\* of _make_scrape_request raises, "" when it returns the response.
RequestRaises(o) ==
    IF o.exc # "" THEN o.exc
    ELSE IF o.status >= 400 /\ o.status < 600 THEN "HTTPError"
    ELSE ""

(***************************************************************************)
(* FireCrawlExtractor.scrape: the result it returns.                       *)
(***************************************************************************)

ScrapeFailure(error) ==
    [keys |-> {"success", "error"}, success |-> FALSE, data |-> NoData, error |-> error]

ScrapeSuccess(data) ==
    [keys |-> {"success", "data"}, success |-> TRUE, data |-> data, error |-> ""]

NoScrapeResult == [keys |-> {}, success |-> FALSE, data |-> NoData, error |-> ""]

\* The except clauses of scrape (lines 170-190) for the exception exc that
\* left _make_scrape_request.
ScrapeExcept(exc) ==
    IF exc = "Timeout" THEN ScrapeFailure("Request timed out after retries")
    ELSE IF exc \in RequestExceptions
    THEN ScrapeFailure("Network error during request after potential retries: " \o exc)
    ELSE ScrapeFailure("Unexpected error during scrape: " \o exc)

\* The error text of lines 161-163.
ServiceError(body) ==
    LET error_msg == IF body.error = ABSENT
                     THEN "Unknown API error or success=false"
                     ELSE body.error
        details == IF body.details = ABSENT THEN "" ELSE body.details
    IN  IF details # "" THEN error_msg \o ": " \o details ELSE error_msg

\* A variant of ScrapeResponse that tests the truth of success instead of
\* "is True": C8's formula must tell it from ScrapeResponse.
ScrapeResponseTruthy(status_code, body) ==
    IF body.json = "undecodable"
    THEN ScrapeFailure("Failed to decode JSON response")
    ELSE IF body.json = "nondict"
    THEN ScrapeExcept("AttributeError")
    ELSE IF 200 <= status_code /\ status_code < 300 /\ body.success \in {"true", "other"}
    THEN IF body.data.present
         THEN ScrapeSuccess(body.data)
         ELSE ScrapeFailure("API reported success but no data field found in response")
    ELSE ScrapeFailure(ServiceError(body))

\* Lines 122-168: the result for a response _make_scrape_request returned.
ScrapeResponse(status_code, body) ==
    IF body.json = "undecodable"
    THEN ScrapeFailure("Failed to decode JSON response")
    ELSE IF body.json = "nondict"
    THEN ScrapeExcept("AttributeError")
    ELSE IF 200 <= status_code /\ status_code < 300 /\ body.success = "true"
    THEN IF body.data.present
         THEN ScrapeSuccess(body.data)
         ELSE ScrapeFailure("API reported success but no data field found in response")
    ELSE ScrapeFailure(ServiceError(body))

\* What scrape returns when the last call of _make_scrape_request ended as o.
ScrapeReturn(o) ==
    IF RequestRaises(o) # "" THEN ScrapeExcept(RequestRaises(o))
    ELSE ScrapeResponse(o.status, o.body)

(***************************************************************************)
(* PageProcessor.process_page: the result envelope.                        *)
(***************************************************************************)

NoSummary ==
    [keys |-> {}, success |-> FALSE, summary |-> <<>>, title |-> "",
     keyPoints |-> <<>>, readingTime |-> 0, wordCount |-> 0]

NoResult ==
    [keys |-> {}, success |-> FALSE, error |-> "", url |-> "", title |-> "",
     summary |-> <<>>, keyPoints |-> <<>>, wordCount |-> 0, readingTime |-> 0,
     content |-> NoScrapeResult]

Failure(error) ==
    [NoResult EXCEPT !.keys = {"success", "error"}, !.error = error]

\* return extraction_result (line 135)
ReturnExtraction(extraction_result) ==
    [NoResult EXCEPT !.keys = extraction_result.keys,
                     !.success = extraction_result.success,
                     !.error = extraction_result.error]

\* data.get('metadata', {}).get('title', '') (line 138)
TitleOf(data) == IF data.title = ABSENT THEN "" ELSE data.title

\* Lines 137-156, for a successful extraction_result: which cleaner runs
\* ("markdown", "html", "none"), or "raise" when data or its metadata is null.
CleanerFor(data) ==
    IF data.isNull \/ data.metadata = "null" THEN "raise"
    ELSE IF data.markdown.present /\ ~data.markdown.empty THEN "markdown"
    ELSE IF data.html.present /\ data.html.text # <<>> THEN "html"
    ELSE "none"

\* content_to_summarize for a payload one of the cleaners runs on.
Cleaned(data) ==
    IF CleanerFor(data) = "markdown" THEN extract_text_from_markdown(data.markdown.tokens)
    ELSE IF CleanerFor(data) = "html" THEN clean_content_regex(data.html.text)
    ELSE <<>>

\* The words-per-minute process_page divides by (line 170).
page_words_per_minute == 200

\* Lines 161-184: the envelope built from the summarizer's result.
Combine(u, extraction_result, summary_result) ==
    LET summary_text == IF "summary" \in summary_result.keys
                        THEN summary_result.summary ELSE <<>>
        word_count == IF summary_text # <<>> THEN WordCount(summary_text) ELSE 0
    IN  [keys |-> {"success", "url", "content", "summary", "keyPoints", "title",
                   "wordCount", "readingTime"},
         success |-> TRUE,
         error |-> "",
         url |-> u,
         title |-> TitleOf(extraction_result.data),
         summary |-> summary_text,
         keyPoints |-> summary_result.keyPoints,
         wordCount |-> word_count,
         readingTime |-> IF word_count > 0
                         THEN PyRoundDiv(word_count, page_words_per_minute) ELSE 0,
         content |-> extraction_result]

\* str(e) of the HTTPException summarize raises, as process_page reports it.
KeyMissing == "500: Gemini API key not configured"

\* The except clauses of summarize (lines 192-199).
SummarizeExcept(exc) ==
    IF exc \in GenRetryable \cup {"InvalidArgument"}
    THEN "502: Failed to generate summary (Gemini API error): " \o exc
    ELSE "500: Unexpected error during summary generation: " \o exc

\* process_page from the return of scrape to the call of the summarizer, given
\* the cleaner's output: the stages it runs, and the result when it returns
\* before the model call.
AfterClean(extraction_result, content_to_summarize) ==
    [stages |-> (IF extraction_result.success
                    /\ CleanerFor(extraction_result.data) \in {"markdown", "html"}
                 THEN <<"normalize">> ELSE <<>>)
                \o (IF extraction_result.success /\ content_to_summarize # <<>>
                    THEN <<"summarize">> ELSE <<>>),
     calls |-> extraction_result.success /\ content_to_summarize # <<>>,
     content |-> IF extraction_result.success THEN content_to_summarize ELSE <<>>,
     title |-> IF extraction_result.success /\ content_to_summarize # <<>>
               THEN TitleOf(extraction_result.data) ELSE "",
     result |->
        IF ~extraction_result.success THEN ReturnExtraction(extraction_result)
        ELSE IF CleanerFor(extraction_result.data) = "raise"
        THEN Failure("'NoneType' object has no attribute 'get'")
        ELSE IF CleanerFor(extraction_result.data) = "none"
        THEN Failure("No content extracted")
        ELSE IF content_to_summarize = <<>> THEN Failure("Content empty after cleaning")
        ELSE NoResult]

\* A variant of AfterScrape without the test of line 134, the cleaners running
\* on whatever scrape returned: C7's formula must tell it from AfterScrape.
AfterScrapeSkipsCheck(extraction_result) ==
    AfterClean([extraction_result EXCEPT !.success = TRUE],
               Cleaned(extraction_result.data))

AfterScrape(extraction_result) ==
    AfterClean(extraction_result,
               IF extraction_result.success THEN Cleaned(extraction_result.data)
               ELSE <<>>)

(***************************************************************************)
(* The model's answers.                                                    *)
(***************************************************************************)

\* Responses are built from at most MaxPieces of these pieces (PipePieces
\* inside process_page).
MaxPieces == 4

PipePieces == 2

Pieces ==
    {<<"a">>, <<" ">>, <<"\n">>, <<"*">>, <<"-">>, <<"*", " ", "b", "\n">>, separator}

RECURSIVE PieceTexts(_)
PieceTexts(n) ==
    IF n = 0 THEN {<<>>}
    ELSE LET shorter == PieceTexts(n - 1)
         IN  shorter \cup {p \o t : p \in Pieces, t \in shorter}

Responses == PieceTexts(MaxPieces)

\* An answer of LongWords one-letter words, long enough for a reading time
\* above zero.
LongWords == 101

LongAnswer == [i \in 1..(2 * LongWords - 1) |-> IF i % 2 = 1 THEN "a" ELSE " "]

PipeResponses == PieceTexts(PipePieces) \cup {LongAnswer}

\* What one model.generate_content call (and reading response.text) does.
GenOutcomes(texts) ==
    {[exc |-> x, text |-> <<>>] :
        x \in GenRetryable \cup {"InvalidArgument", "ValueError"}}
    \cup {[exc |-> "", text |-> t] : t \in texts}

(***************************************************************************)
(* /api/firecrawl/scrape (app.py): the endpoint and its local scraper.     *)
(***************************************************************************)

\* The bodies the endpoint is tried with.
EndpointOutcomes ==
    {o \in HttpOutcomes : o.body.data \in {NoData, ArticleData}}

NoOutcome == [exc |-> "", status |-> 0, body |-> NoBody]

\* A variant of EndpointFallsBack that tests for an error status instead of
\* "!= 200": C3's formula must tell it from EndpointFallsBack.
EndpointFallsBackOnErrorStatus(o) ==
    \/ o.exc # ""
    \/ o.status >= 400
    \/ o.body.json # "dict"

\* Lines 240-261: whether fire_crawl_scrape ends in _local_scrape_fallback
\* for the outcome of its one requests.post: an exception, a status other
\* than 200, or a body response.json() or result.keys() fails on.
EndpointFallsBack(o) ==
    \/ o.exc # ""
    \/ o.status # 200
    \/ o.body.json # "dict"

NONE == "<None>"

\* The target page as the local scraper's requests.get finds it.
LocalOutcomes ==
    {[exc |-> x, status |-> 0, title_tag |-> FALSE, title_string |-> NONE,
      container |-> "none", paragraphs |-> 0] : x \in {"Timeout", "ConnectionError"}}
    \cup {[exc |-> "", status |-> st, title_tag |-> tt[1], title_string |-> tt[2],
           container |-> c, paragraphs |-> n] :
            st \in {200, 404},
            tt \in {<<FALSE, NONE>>, <<TRUE, NONE>>, <<TRUE, "">>, <<TRUE, "A page">>},
            c \in {"main", "body", "none"},
            n \in {0, 1}}

NoLocal == [placeholder |-> FALSE, title |-> "", html |-> "", markdown |-> <<>>]

\* _local_scrape_fallback (lines 263-357): main_content is None for a page
\* with no container, and find_all on it raises into the except clause.
local_scrape_fallback(lo) ==
    IF lo.exc # "" \/ lo.status >= 400 \/ lo.container = "none"
    THEN [placeholder |-> TRUE,
          title |-> "Error Scraping Content",
          html |-> "<div><p>Error scraping content</p></div>",
          markdown |-> <<"E", "r", "r", "o", "r">>]
    ELSE [placeholder |-> FALSE,
          title |-> IF lo.title_tag THEN lo.title_string ELSE "Scraped Content",
          html |-> "<" \o lo.container \o ">",
          markdown |-> IF lo.paragraphs = 0 THEN <<>> ELSE <<"a", "\n", "\n">>]

NoEndpointResult == [source |-> "", body |-> NoBody, local |-> NoLocal]

(***************************************************************************)
(* extractive_summarization (app.py)                                       *)
(***************************************************************************)

\* The longest summary target and the longest text, in sentences, and the
\* number of distinct rank scores.
MaxTarget == 2
MaxSentences == 4
MaxScore == 3

\* str.split(sep): the pieces of s between the occurrences of sep.
RECURSIVE Split(_, _)
Split(s, sep) ==
    IF ~Contains(s, sep) THEN <<s>>
    ELSE <<SplitOnce(s, sep)[1]>> \o Split(SplitOnce(s, sep)[2], sep)

\* sent_tokenize(text): a sentence ends at '.', '?' or '!' followed by white
\* space, which is dropped; what follows the last such end is a sentence too.
SentenceEnd(s) ==
    LET ends == {i \in 1..(Len(s) - 1) : s[i] \in {".", "?", "!"} /\ s[i + 1] \in WS}
    IN  IF ends = {} THEN 0 ELSE CHOOSE i \in ends : \A j \in ends : i <= j

RECURSIVE sent_tokenize(_)
sent_tokenize(text) ==
    IF Strip(text) = <<>> THEN <<>>
    ELSE IF SentenceEnd(Strip(text)) = 0 THEN <<Strip(text)>>
    ELSE <<SubSeq(Strip(text), 1, SentenceEnd(Strip(text)))>>
         \o sent_tokenize(SubSeq(Strip(text), SentenceEnd(Strip(text)) + 1,
                                 Len(Strip(text))))

\* The sentences the texts are written with, and the texts.
SentenceKinds == {<<"a", ".">>, <<"b", "?">>}

ExTexts ==
    {Join(ss, <<" ">>) :
        ss \in UNION {[1..n -> SentenceKinds] : n \in 0..MaxSentences}}

\* The place of sentence i in ranked_sentences, the triples (score, i, s)
\* sorted in decreasing order: a higher score first, and of two equal scores
\* the later sentence first (line 678).
RankPlace(scores, i) ==
    1 + Cardinality({j \in DOMAIN scores :
                        \/ scores[j] > scores[i]
                        \/ scores[j] = scores[i] /\ j > i})

\* The members of a set of positions, in increasing order.
RECURSIVE Ascending(_)
Ascending(S) ==
    IF S = {} THEN <<>>
    ELSE LET m == CHOOSE i \in S : \A j \in S : i <= j
         IN  <<m>> \o Ascending(S \ {m})

\* top_sentences (line 679): the first num_sentences of ranked_sentences,
\* sorted by position.
top_sentences(sentences, scores, num_sentences) ==
    LET top == Ascending({i \in DOMAIN sentences : RankPlace(scores, i) <= num_sentences})
    IN  [k \in 1..Len(top) |-> sentences[top[k]]]

\* The except clause (lines 682-686): the first pieces of the text between
\* ". ", joined again, and a full stop.
BasicFallback(text, num_sentences) ==
    Join(SubSeq(Split(text, <<".", " ">>), 1,
                Min2(num_sentences, Len(Split(text, <<".", " ">>)))),
         <<".", " ">>) \o <<".">>

\* What the tokenizer and the ranking can do: run, or raise for want of their
\* data or of a package (the downloads of lines 53-58 and 653-655 may fail).
LibraryOutcomes == {"", "LookupError"}
RankOutcomes == {"", "ImportError"}

(***************************************************************************)
(* The two normalizers applied to raw text                                 *)
(***************************************************************************)

\* The longest raw text, in fragments.
MaxFragments == 3

\* The texts made of up to MaxFragments of the given fragments.
Concats(fragments) ==
    {FlattenSeq(fs) : fs \in UNION {[1..n -> fragments] : n \in 0..MaxFragments}}

BareUrl == <<"h", "t", "t", "p", ":", "/", "/", "x">>

\* The fragments of the raw texts given to clean_content_regex: the parts of
\* links, of images and of citation markers, a line end and a bare URL.
RegexFragments ==
    {<<"[">>, <<"!", "[", "a">>, <<"[", "a", "]", "(", "b", ")">>,
     <<"]", "(", "b", ")">>, <<"[", "1", "]">>, <<"1", "]">>, <<"\n">>, BareUrl}

\* The fragments of the markdown texts: one line with brackets, digits and
\* spaces but with no link, image, emphasis or block syntax.
MarkdownFragments == {<<"[">>, <<"[", "1", "]">>, <<"1", "]">>, <<"a">>, <<" ">>, BareUrl}

\* md_parser.parse(markdown_content) for such a line: nothing for a blank
\* line, an indented code block when four spaces lead it, else a paragraph
\* whose inline token has one text child, the line without the white space
\* around it.
md_parse(markdown_content) ==
    IF Strip(markdown_content) = <<>> THEN <<>>
    ELSE IF StartsWith(markdown_content, <<" ", " ", " ", " ">>)
    THEN <<Tok("code_block")>>
    ELSE <<Tok("paragraph_open"),
           Inline(<<Child("text", Strip(markdown_content))>>),
           Tok("paragraph_close")>>

\* The cleaner process_page applies to markdown, or to html (lines 143-150).
Normalize(path, raw) ==
    IF path = "markdown" THEN extract_text_from_markdown(md_parse(raw))
    ELSE clean_content_regex(raw)

RawInputs(path) ==
    IF path = "markdown" THEN Concats(MarkdownFragments) ELSE Concats(RegexFragments)

(***************************************************************************)
(* CookieHandler (cookie_handler.py)                                       *)
(***************************************************************************)

\* The accept_cookies calls made on the singleton handler.
MaxCalls == 2
Calls == 1..MaxCalls

\* The cascade of accept_cookies (lines 72-87), in its order.
selectors ==
    <<"button[data-ph-at-id='cookie-close-link'][phae-main='2']",
      "button:has(.icon-check-mark)",
      "button:has(ppc-content[key='allowCookiesText'])",
      "button[id*='accept'], button[id*='agree'], button[id*='allow']",
      "button[class*='accept'], button[class*='agree'], button[class*='allow']",
      "button:has-text('Accept')",
      "button:has-text('Allow')",
      "button:has-text('Agree')",
      "button:has-text('I agree')",
      "button:has-text('Accept all')",
      "button:has-text('Accept cookies')">>

\* The eBay selectors of the cascade, and the generic ones.
SiteSpecific == {selectors[i] : i \in 1..3}
Generic == {selectors[i] : i \in 4..Len(selectors)}

\* The pages visited, each the set of the selectors that have a visible
\* match on it.
Pages == {{}, {selectors[2], selectors[6]}}

NoCookieResult == [keys |-> {}, success |-> FALSE, error |-> "", cookies |-> <<>>]

\* A variant of CookieFailure that also carries a cookies entry: C26's formula
\* must tell it from CookieFailure.
CookieFailureWithCookies(error) ==
    [NoCookieResult EXCEPT !.keys = {"success", "error", "cookies"}, !.error = error]

CookieFailure(error) ==
    [NoCookieResult EXCEPT !.keys = {"success", "error"}, !.error = error]

CookieSuccess(cookies) ==
    [NoCookieResult EXCEPT !.keys = {"success", "cookies"}, !.success = TRUE,
                           !.cookies = cookies]

\* One call of accept_cookies before it starts.
NoCall ==
    [pc |-> "idle",          \* where the call stands
     saw |-> FALSE,          \* self.browser was set at line 54
     launch |-> "",          \* how its setup() ended: "", "ok", "failed"
     on |-> 0,               \* the launch of the browser it works on
     context |-> "none",     \* its browsing context: "none", "open", "closed"
     page |-> {},            \* the selectors visible on the page it opened
     tried |-> <<>>,         \* the selectors given to wait_for_selector
     clicks |-> <<>>,        \* the clicks made, each with how it ended
     jar |-> <<>>,           \* the cookies of its context
     result |-> NoCookieResult]

\* A variant of BrowserAfterSetup that records a browser whether or not the
\* launch succeeded: C17's formula must tell it from BrowserAfterSetup.
BrowserAfterSetupRecords(launched, browser) == "up"

\* self.browser when setup returns (lines 28, 31-33): the launched browser,
\* or what it was.
BrowserAfterSetup(launched, browser) == IF launched THEN "up" ELSE browser

\* A variant of AfterMiss that leaves accept_cookies when the last selector
\* raised: C20's formula must tell it from AfterMiss.
AfterMissLeaves(i) == IF i < Len(selectors) THEN "searching" ELSE "done"

\* The loop of lines 90-102 after selector i raised, in wait_for_selector or
\* in click: the next selector, or the end of the loop.
AfterMiss(i) == IF i < Len(selectors) THEN "searching" ELSE "capturing"

\* A variant of AfterClick without the break: C19's formula must tell it
\* from AfterClick.
AfterClickGoesOn(i) == IF i < Len(selectors) THEN "searching" ELSE "capturing"

\* The same loop after the click on a match returned: the sleep, and break.
AfterClick(i) == "settling"

\* str(e) of the error Playwright raises for a call on a closed browser or on
\* one of its contexts and pages.
TargetClosed == "Target page, context or browser has been closed"

\* close() before it is called: target is the launch it is closing.
NoClose == [pc |-> "idle", target |-> 0]

\* str(e) of the TimeoutError of goto and of wait_for_load_state.
GotoTimeout == "Timeout 30000ms exceeded."
LoadTimeout == "Timeout 10000ms exceeded."

(***************************************************************************)
(* Concurrent process_page calls on one event loop                         *)
(***************************************************************************)

\* The process_page tasks created on the event loop.
MaxTasks == 2
Tasks == 1..MaxTasks

\* The model's answers to the tasks.
TaskResponses == PieceTexts(1)

\* A task is at a call that waits for the network or sleeps:
\* requests.post, time.sleep of the scrape wrapper, model.generate_content,
\* time.sleep of the model wrapper.
WaitingStates == {"requesting", "backoff", "generating", "gen_backoff"}

(***************************************************************************)
(* FireCrawlExtractor.scrape called on its own: the request it builds      *)
(***************************************************************************)

DEFAULT_USER_AGENT == "Mozilla/5.0"

\* The cookie jars a consent run can capture: Playwright's list of cookies.
Jars ==
    {<<>>,
     <<[name |-> "sid", value |-> "1"]>>,
     <<[name |-> "sid", value |-> "1"], [name |-> "consent", value |-> "yes"]>>,
     <<[name |-> "consent", value |-> "yes"], [name |-> "sid", value |-> "1"]>>}

RECURSIVE JoinStrings(_, _)
JoinStrings(parts, sep) ==
    IF parts = <<>> THEN ""
    ELSE IF Len(parts) = 1 THEN parts[1]
    ELSE parts[1] \o sep \o JoinStrings(Tail(parts), sep)

\* format_cookies_for_firecrawl (cookie_handler.py:127-130)
format_cookies_for_firecrawl(cookies) ==
    [keys |-> {"Cookie"},
     Cookie |-> JoinStrings([i \in 1..Len(cookies) |->
                                cookies[i].name \o "=" \o cookies[i].value], "; ")]

NoHeaders == [keys |-> {}, UserAgent |-> "", Cookie |-> ""]

\* target_site_headers as scrape builds it (lines 87-91): the User-Agent
\* alone, whatever bypass_cookies is.
target_site_headers(bypass_cookies) ==
    [NoHeaders EXCEPT !.keys = {"User-Agent"}, !.UserAgent = DEFAULT_USER_AGENT]

\* No run of the wrapper is followed beyond this many attempts; the stop
\* condition of line 49 ends it well before.
AttemptCap == MaxAttempts + 1

\* Where the caller of _make_scrape_request goes when the wrapper ends: scrape
\* called on its own returns, process_page goes on.
NoContinuation ==
    [stages |-> <<>>, calls |-> FALSE, content |-> <<>>, title |-> "", result |-> NoResult]

AfterReturn(caller, extraction_result) ==
    IF caller = "scrape" THEN NoContinuation ELSE AfterScrape(extraction_result)

(***************************************************************************)
(* State: one request, from the call of its entry point to its return.     *)
(***************************************************************************)

VARIABLES
    pc,             \* "idle", "requesting", "backoff", "generating",
                    \* "gen_backoff", "fc_requesting", "local", "done"
    entry,          \* the entry point called: "process_page", "summarize",
                    \* "fire_crawl_scrape"
    url,            \* its url argument
    gemini_key,     \* GeminiSummarizer.api_key is set
    firecrawl_key,  \* FIRECRAWL_API_KEY is set (app.py)
    attempts,       \* calls of requests.post made by _make_scrape_request
    tries,          \* what each of them raised, in order ("" for a response)
    httpOutcome,    \* what the last of them did
    sleeps,         \* the seconds its wrapper slept, in order
    raised,         \* the exception that left _make_scrape_request, "" if none
    scrapeResult,   \* what FireCrawlExtractor.scrape returned
    stages,         \* the stages process_page called, in order
    content,        \* content_to_summarize
    title,          \* the title passed to summarize
    genAttempts,    \* calls of model.generate_content
    genTries,       \* what each of them raised, in order ("" for an answer)
    genSleeps,      \* the seconds the wrapper of _generate_with_retry slept
    genRaised,      \* the exception that left _generate_with_retry
    response,       \* full_response_text
    summaryResult,  \* what summarize returned
    sumError,       \* str() of the HTTPException summarize raised, "" if none
    result,         \* what process_page returned
    remoteOutcome,  \* fire_crawl_scrape: what its requests.post did
    remoteCalls,    \* fire_crawl_scrape: calls of requests.post
    localRuns,      \* runs of _local_scrape_fallback
    endpointResult, \* what fire_crawl_scrape returned
    exPc,           \* extractive_summarization: "idle", "ranking", "done"
    exText,         \* its text argument
    exTarget,       \* its num_sentences argument
    exSentences,    \* sentences, once tokenized
    exScores,       \* scores, once ranked
    exRaised,       \* the exception its except clause caught, "" if none
    exOut,          \* what it returned
    nzPc,           \* a normalizer: "idle", "once", "twice"
    nzPath,         \* "markdown" or "regex"
    nzInput,        \* the raw text
    nzOnce,         \* what the normalizer returned for it
    nzTwice,        \* what it returned for nzOnce
    browser,        \* cookie_handler.browser: "none" or "up"
    launches,       \* the browsers launched by setup()
    calls,          \* the accept_cookies calls, each a record as NoCall
    current,        \* the launch that self.browser refers to, 0 for None
    closedIds,      \* the launches whose browser has been closed
    closer,         \* the call of close(): where it stands and what it closes
    running,        \* the process_page task that holds the event loop, 0 if none
    tasks,          \* each task: "pending", "running" or "returned"
    taskResult,     \* the success flag of what each task's process_page returned
    bypass,         \* scrape's bypass_cookies argument
    reqHeaders      \* req_body["headers"], the headers for the target site

scrapeVars == <<attempts, tries, httpOutcome, sleeps, raised, scrapeResult>>

genVars ==
    <<genAttempts, genTries, genSleeps, genRaised, response, summaryResult, sumError>>

endpointVars == <<remoteOutcome, remoteCalls, localRuns, endpointResult>>

keyVars == <<gemini_key, firecrawl_key>>

extractiveVars == <<exPc, exText, exTarget, exSentences, exScores, exRaised, exOut>>

normalizeVars == <<nzPc, nzPath, nzInput, nzOnce, nzTwice>>

\* The variables of the entry points that process_page does not reach.
closeVars == <<closedIds, closer>>

cookieVars == <<browser, launches, calls, current, closeVars>>

taskVars == <<running, tasks, taskResult>>

requestVars == <<bypass, reqHeaders>>

otherVars == <<extractiveVars, normalizeVars, cookieVars, taskVars, requestVars>>

\* The variables of process_page and of fire_crawl_scrape.
pageVars ==
    <<pc, entry, url, keyVars, scrapeVars, stages, content, title, genVars, result,
      endpointVars>>

vars == <<pageVars, otherVars>>

Init ==
    /\ pc = "idle"
    /\ entry = ""
    /\ url = ""
    /\ gemini_key \in BOOLEAN
    /\ firecrawl_key \in BOOLEAN
    /\ attempts = 0
    /\ tries = <<>>
    /\ httpOutcome = NoOutcome
    /\ sleeps = <<>>
    /\ raised = ""
    /\ scrapeResult = NoScrapeResult
    /\ stages = <<>>
    /\ content = <<>>
    /\ title = ""
    /\ genAttempts = 0
    /\ genTries = <<>>
    /\ genSleeps = <<>>
    /\ genRaised = ""
    /\ response = <<>>
    /\ summaryResult = NoSummary
    /\ sumError = ""
    /\ result = NoResult
    /\ remoteOutcome = NoOutcome
    /\ remoteCalls = 0
    /\ localRuns = 0
    /\ endpointResult = NoEndpointResult
    /\ exPc = "idle"
    /\ exText = <<>>
    /\ exTarget = 0
    /\ exSentences = <<>>
    /\ exScores = <<>>
    /\ exRaised = ""
    /\ exOut = <<>>
    /\ nzPc = "idle"
    /\ nzPath = ""
    /\ nzInput = <<>>
    /\ nzOnce = <<>>
    /\ nzTwice = <<>>
    /\ browser = "none"
    /\ launches = 0
    /\ calls = [c \in Calls |-> NoCall]
    /\ current = 0
    /\ closedIds = {}
    /\ closer = NoClose
    /\ running = 0
    /\ tasks = [t \in Tasks |-> "pending"]
    /\ taskResult = [t \in Tasks |-> "none"]
    /\ bypass = FALSE
    /\ reqHeaders = NoHeaders

(***************************************************************************)
(* process_page and FireCrawlExtractor.scrape                              *)
(***************************************************************************)

\* process_page is called and calls scrape, which builds the request and
\* enters _make_scrape_request.  The processor's extractor exists only with a
\* key: FireCrawlExtractor.__init__ raises ValueError without one.
ProcessPageCall ==
    /\ pc = "idle"
    /\ firecrawl_key
    /\ \E u \in Urls : url' = u
    /\ entry' = "process_page"
    /\ stages' = <<"scrape">>
    /\ pc' = "requesting"
    /\ UNCHANGED <<keyVars, scrapeVars, content, title, genVars, result, endpointVars,
                   otherVars>>

\* One call of _make_scrape_request's body.  A retryable exception with
\* attempts left goes to the backoff sleep; anything else ends the wrapper:
\* scrape returns, and process_page runs on to the model call or to its return.
ScrapeAttempt ==
    /\ pc = "requesting"
    /\ attempts < AttemptCap
    /\ attempts' = attempts + 1
    /\ \E o \in HttpOutcomes :
         /\ httpOutcome' = o
         /\ tries' = Append(tries, RequestRaises(o))
         /\ IF RetryScrape(RequestRaises(o), attempts + 1)
            THEN /\ pc' = "backoff"
                 /\ UNCHANGED <<raised, scrapeResult, stages, content, title, result,
                                sumError>>
            ELSE \E after \in {AfterReturn(entry, ScrapeReturn(o))} :
                    /\ raised' = RequestRaises(o)
                    /\ scrapeResult' = ScrapeReturn(o)
                    /\ stages' = stages \o after.stages
                    /\ content' = after.content
                    /\ title' = after.title
                    /\ sumError' = IF after.calls /\ ~gemini_key THEN KeyMissing ELSE ""
                    /\ result' = IF after.calls /\ ~gemini_key
                                 THEN Failure(KeyMissing) ELSE after.result
                    /\ pc' = IF after.calls /\ gemini_key THEN "generating" ELSE "done"
    /\ UNCHANGED <<entry, url, keyVars, sleeps, genAttempts, genTries, genSleeps,
                   genRaised, response, summaryResult, endpointVars,
                   otherVars>>

\* The wrapper sleeps, then calls again.
ScrapeBackoff ==
    /\ pc = "backoff"
    /\ sleeps' = Append(sleeps, wait_exponential(WaitMultiplier, WaitMin, WaitMax, attempts))
    /\ pc' = "requesting"
    /\ UNCHANGED <<entry, url, keyVars, attempts, tries, httpOutcome, raised,
                   scrapeResult, stages, content, title, genVars, result, endpointVars,
                   otherVars>>

(***************************************************************************)
(* GeminiSummarizer.summarize                                              *)
(***************************************************************************)

\* summarize is called on its own.
SummarizeCall ==
    /\ pc = "idle"
    /\ entry' = "summarize"
    /\ \E t \in {"", "An article"} : title' = t
    /\ content' = <<"a">>
    /\ stages' = <<"summarize">>
    /\ sumError' = IF gemini_key THEN "" ELSE KeyMissing
    /\ pc' = IF gemini_key THEN "generating" ELSE "done"
    /\ UNCHANGED <<url, keyVars, scrapeVars, genAttempts, genTries, genSleeps, genRaised,
                   response, summaryResult, result, endpointVars,
                   otherVars>>

\* One call of _generate_with_retry's body, the model answering with one of
\* texts.  When the wrapper ends, summarize returns or raises, and
\* process_page, if it is the caller, returns.
GenerateAttempt(texts) ==
    /\ pc = "generating"
    /\ genAttempts' = genAttempts + 1
    /\ \E o \in GenOutcomes(texts) :
         /\ genTries' = Append(genTries, o.exc)
         /\ IF RetryGenerate(o.exc, genAttempts + 1)
            THEN /\ pc' = "gen_backoff"
                 /\ UNCHANGED <<genRaised, response, summaryResult, sumError, result>>
            ELSE \E summary_result \in {IF o.exc = "" THEN ParseResponse(o.text, title)
                                         ELSE NoSummary} :
                    /\ genRaised' = o.exc
                    /\ response' = o.text
                    /\ summaryResult' = summary_result
                    /\ sumError' = IF o.exc = "" THEN "" ELSE SummarizeExcept(o.exc)
                    /\ result' = IF entry # "process_page" THEN result
                                 ELSE IF o.exc # "" THEN Failure(SummarizeExcept(o.exc))
                                 ELSE Combine(url, scrapeResult, summary_result)
                    /\ pc' = "done"
    /\ UNCHANGED <<entry, url, keyVars, scrapeVars, stages, content, title, genSleeps,
                   endpointVars,
                   otherVars>>

GenerateBackoff ==
    /\ pc = "gen_backoff"
    /\ genSleeps' = Append(genSleeps,
                           wait_exponential(GenWaitMultiplier, GenWaitMin, GenWaitMax,
                                            genAttempts))
    /\ pc' = "generating"
    /\ UNCHANGED <<entry, url, keyVars, scrapeVars, stages, content, title, genAttempts,
                   genTries, genRaised, response, summaryResult, sumError, result,
                   endpointVars,
                   otherVars>>

(***************************************************************************)
(* fire_crawl_scrape                                                       *)
(***************************************************************************)

\* The endpoint is called: without the key it goes to the local scraper.
FireCrawlScrapeCall ==
    /\ pc = "idle"
    /\ entry' = "fire_crawl_scrape"
    /\ \E u \in Urls : url' = u
    /\ pc' = IF firecrawl_key THEN "fc_requesting" ELSE "local"
    /\ UNCHANGED <<keyVars, scrapeVars, stages, content, title, genVars, result,
                   endpointVars,
                   otherVars>>

\* Its one requests.post: the body is returned as it came, or the local
\* scraper is run.
EndpointRequest ==
    /\ pc = "fc_requesting"
    /\ remoteCalls' = remoteCalls + 1
    /\ \E o \in EndpointOutcomes :
         /\ remoteOutcome' = o
         /\ IF EndpointFallsBack(o)
            THEN pc' = "local" /\ UNCHANGED endpointResult
            ELSE /\ endpointResult' = [NoEndpointResult EXCEPT !.source = "remote",
                                                               !.body = o.body]
                 /\ pc' = "done"
    /\ UNCHANGED <<entry, url, keyVars, scrapeVars, stages, content, title, genVars,
                   result, localRuns,
                   otherVars>>

\* _local_scrape_fallback runs and the endpoint returns what it returns.
LocalScrape ==
    /\ pc = "local"
    /\ localRuns' = localRuns + 1
    /\ \E lo \in LocalOutcomes :
         endpointResult' = [NoEndpointResult EXCEPT !.source = "local",
                                                    !.local = local_scrape_fallback(lo)]
    /\ pc' = "done"
    /\ UNCHANGED <<entry, url, keyVars, scrapeVars, stages, content, title, genVars,
                   result, remoteOutcome, remoteCalls,
                   otherVars>>

(***************************************************************************)
(* extractive_summarization                                                *)
(***************************************************************************)

\* The function is called and tokenizes its text: it returns all the
\* sentences of a short text, goes on to rank those of a longer one, or
\* falls to its except clause.
ExtractiveCall ==
    /\ exPc = "idle"
    /\ \E text \in ExTexts, num_sentences \in 1..MaxTarget, lib \in LibraryOutcomes :
         \E sentences \in {sent_tokenize(text)} :
            /\ exText' = text
            /\ exTarget' = num_sentences
            /\ exRaised' = lib
            /\ IF lib # ""
               THEN /\ exOut' = BasicFallback(text, num_sentences)
                    /\ exPc' = "done"
                    /\ UNCHANGED exSentences
               ELSE IF Len(sentences) <= num_sentences
               THEN /\ exOut' = Join(sentences, <<" ">>)
                    /\ exSentences' = sentences
                    /\ exPc' = "done"
               ELSE /\ exSentences' = sentences
                    /\ exPc' = "ranking"
                    /\ UNCHANGED exOut
    /\ UNCHANGED <<exScores, pageVars, normalizeVars, cookieVars, taskVars, requestVars>>

\* The sentences are ranked and the best of them returned in the order of the
\* text, or the ranking raises and the except clause answers.
ExtractiveRank ==
    /\ exPc = "ranking"
    /\ \E lib \in RankOutcomes :
         /\ exRaised' = lib
         /\ IF lib # ""
            THEN /\ exOut' = BasicFallback(exText, exTarget)
                 /\ UNCHANGED exScores
            ELSE \E scores \in [1..Len(exSentences) -> 1..MaxScore] :
                    /\ exScores' = scores
                    /\ exOut' = Join(top_sentences(exSentences, scores, exTarget),
                                     <<" ">>)
    /\ exPc' = "done"
    /\ UNCHANGED <<exText, exTarget, exSentences, pageVars, normalizeVars,
                   cookieVars, taskVars, requestVars>>

(***************************************************************************)
(* The normalizers                                                         *)
(***************************************************************************)

\* A normalizer is applied to a raw text.
NormalizeCall ==
    /\ nzPc = "idle"
    /\ \E path \in {"markdown", "regex"} :
         \E raw \in RawInputs(path) :
            /\ nzPath' = path
            /\ nzInput' = raw
            /\ nzOnce' = Normalize(path, raw)
    /\ nzPc' = "once"
    /\ UNCHANGED <<nzTwice, pageVars, extractiveVars, cookieVars, taskVars, requestVars>>

\* The same normalizer is applied to what it returned.
NormalizeAgain ==
    /\ nzPc = "once"
    /\ nzTwice' = Normalize(nzPath, nzOnce)
    /\ nzPc' = "twice"
    /\ UNCHANGED <<nzPath, nzInput, nzOnce, pageVars, extractiveVars, cookieVars,
                   taskVars, requestVars>>

(***************************************************************************)
(* CookieHandler.accept_cookies: one action for each await of a call        *)
(***************************************************************************)

\* The browser call c works on has been closed.
Dead(c) == calls[c].on \in closedIds

\* Call c starts (lines 54-55): with no browser it enters setup().
AcceptCookiesCall(c) ==
    /\ calls[c].pc = "idle"
    /\ calls' = [calls EXCEPT ![c].saw = browser = "up",
                              ![c].on = IF browser = "up" THEN current ELSE 0,
                              ![c].pc = IF browser = "up" THEN "context"
                                        ELSE "launching"]
    /\ UNCHANGED <<browser, launches, current, closeVars, pageVars, extractiveVars,
                   normalizeVars, taskVars, requestVars>>

\* setup() ends (lines 22-33): the browser is launched and recorded, or an
\* exception is caught and accept_cookies returns its failure (line 56).
SetupEnds(c) ==
    /\ calls[c].pc = "launching"
    /\ \E launched \in BOOLEAN :
         /\ browser' = BrowserAfterSetup(launched, browser)
         /\ launches' = IF launched THEN launches + 1 ELSE launches
         /\ current' = IF launched THEN launches + 1 ELSE current
         /\ calls' = [calls EXCEPT
                         ![c].launch = IF launched THEN "ok" ELSE "failed",
                         ![c].on = IF launched THEN launches + 1 ELSE 0,
                         ![c].pc = IF launched THEN "context" ELSE "done",
                         ![c].result =
                             IF launched THEN NoCookieResult
                             ELSE CookieFailure("Failed to initialize browser")]
    /\ UNCHANGED <<closeVars, pageVars, extractiveVars, normalizeVars, taskVars,
                   requestVars>>

\* new_context() and new_page() (lines 60-61), called on the browser the
\* call found or launched: on a closed browser they raise, and the outer
\* except clause returns the failure.
OpenContext(c) ==
    /\ calls[c].pc = "context"
    /\ calls' = IF Dead(c)
                THEN [calls EXCEPT ![c].pc = "done",
                                   ![c].result = CookieFailure(TargetClosed)]
                ELSE [calls EXCEPT ![c].context = "open", ![c].pc = "navigating"]
    /\ UNCHANGED <<browser, launches, current, closeVars, pageVars, extractiveVars,
                   normalizeVars, taskVars, requestVars>>

\* page.goto (line 65): one of the pages is reached, or the 30 s run out and
\* the outer except clause returns the failure (lines 120-125).
Navigate(c) ==
    /\ calls[c].pc = "navigating"
    /\ IF Dead(c)
       THEN calls' = [calls EXCEPT ![c].pc = "done",
                                   ![c].result = CookieFailure(TargetClosed)]
       ELSE \E timeout \in BOOLEAN, page \in Pages :
               calls' = [calls EXCEPT
                            ![c].page = IF timeout THEN {} ELSE page,
                            ![c].jar = IF timeout THEN <<>> ELSE <<"session">>,
                            ![c].pc = IF timeout THEN "done" ELSE "loading",
                            ![c].result = IF timeout THEN CookieFailure(GotoTimeout)
                                          ELSE NoCookieResult]
    /\ UNCHANGED <<browser, launches, current, closeVars, pageVars, extractiveVars,
                   normalizeVars, taskVars, requestVars>>

\* page.wait_for_load_state (line 68): the network falls idle, or the 10 s
\* run out and the outer except clause returns the failure.
WaitForLoadState(c) ==
    /\ calls[c].pc = "loading"
    /\ IF Dead(c)
       THEN calls' = [calls EXCEPT ![c].pc = "done",
                                   ![c].result = CookieFailure(TargetClosed)]
       ELSE \E timeout \in BOOLEAN :
               calls' = [calls EXCEPT
                            ![c].pc = IF timeout THEN "done" ELSE "searching",
                            ![c].result = IF timeout THEN CookieFailure(LoadTimeout)
                                          ELSE NoCookieResult]
    /\ UNCHANGED <<browser, launches, current, closeVars, pageVars, extractiveVars,
                   normalizeVars, taskVars, requestVars>>

\* page.wait_for_selector for the next selector (line 93): it returns the
\* visible match, or raises after 1 s and the loop goes on.
WaitForSelector(c) ==
    /\ calls[c].pc = "searching"
    /\ LET i == Len(calls[c].tried) + 1
       IN  calls' = [calls EXCEPT
                        ![c].tried = Append(@, selectors[i]),
                        ![c].pc = IF selectors[i] \in calls[c].page /\ ~Dead(c)
                                  THEN "clicking"
                                  ELSE AfterMiss(i)]
    /\ UNCHANGED <<browser, launches, current, closeVars, pageVars, extractiveVars,
                   normalizeVars, taskVars, requestVars>>

\* button.click() (line 96): it returns, the consent cookie set, or it raises
\* and the loop goes on with the next selector (lines 100-102).
Click(c) ==
    /\ calls[c].pc = "clicking"
    /\ LET i == Len(calls[c].tried)
       IN  \E clicked \in IF Dead(c) THEN {FALSE} ELSE BOOLEAN :
              calls' = [calls EXCEPT
                           ![c].clicks = Append(@, [selector |-> selectors[i],
                                                    clicked |-> clicked]),
                           ![c].jar = IF clicked THEN Append(@, "consent") ELSE @,
                           ![c].pc = IF clicked THEN AfterClick(i) ELSE AfterMiss(i)]
    /\ UNCHANGED <<browser, launches, current, closeVars, pageVars, extractiveVars,
                   normalizeVars, taskVars, requestVars>>

\* asyncio.sleep(2) and break (lines 98-99).
Settle(c) ==
    /\ calls[c].pc = "settling"
    /\ calls' = [calls EXCEPT ![c].pc = "capturing"]
    /\ UNCHANGED <<browser, launches, current, closeVars, pageVars, extractiveVars,
                   normalizeVars, taskVars, requestVars>>

\* A variant of ReadCookies that closes the context before it reads the
\* cookies: C21's formula must tell it from ReadCookies.
ReadCookiesClosesFirst(c) ==
    /\ calls[c].pc = "capturing"
    /\ calls' = [calls EXCEPT ![c].context = "closed",
                              ![c].result.cookies = calls[c].jar,
                              ![c].pc = "closing"]
    /\ UNCHANGED <<browser, launches, current, closeVars, pageVars, extractiveVars,
                   normalizeVars, taskVars, requestVars>>

\* context.cookies() (line 105): on a closed browser it raises, and the
\* outer except clause returns the failure.
ReadCookies(c) ==
    /\ calls[c].pc = "capturing"
    /\ calls' = IF Dead(c)
                THEN [calls EXCEPT ![c].pc = "done",
                                   ![c].result = CookieFailure(TargetClosed)]
                ELSE [calls EXCEPT ![c].result.cookies = calls[c].jar,
                                   ![c].pc = "closing"]
    /\ UNCHANGED <<browser, launches, current, closeVars, pageVars, extractiveVars,
                   normalizeVars, taskVars, requestVars>>

\* context.close() and the return of lines 115-118.  On a closed browser
\* context.close() returns or raises, and then the outer except clause
\* returns the failure.
CloseContext(c) ==
    /\ calls[c].pc = "closing"
    /\ \E raises \in IF Dead(c) THEN BOOLEAN ELSE {FALSE} :
         calls' = IF raises
                  THEN [calls EXCEPT ![c].pc = "done",
                                     ![c].result = CookieFailure(TargetClosed)]
                  ELSE [calls EXCEPT ![c].context = "closed",
                                     ![c].result = CookieSuccess(calls[c].result.cookies),
                                     ![c].pc = "done"]
    /\ UNCHANGED <<browser, launches, current, closeVars, pageVars, extractiveVars,
                   normalizeVars, taskVars, requestVars>>

(***************************************************************************)
(* CookieHandler.close: one action for each await                          *)
(***************************************************************************)

\* close() is called (line 37): with a browser recorded it calls
\* self.browser.close(), with none it returns.
CloseCall ==
    /\ closer.pc = "idle"
    /\ closer' = IF browser = "up" THEN [pc |-> "closing", target |-> current]
                 ELSE [pc |-> "done", target |-> 0]
    /\ UNCHANGED <<browser, launches, calls, current, closedIds, pageVars,
                   extractiveVars, normalizeVars, taskVars, requestVars>>

\* browser.close() returns (line 38): the browser and its contexts are
\* closed, and close() calls self.playwright.stop() of the latest setup().
BrowserClosed ==
    /\ closer.pc = "closing"
    /\ closedIds' = closedIds \cup {closer.target}
    /\ closer' = [pc |-> "stopping", target |-> current]
    /\ UNCHANGED <<browser, launches, calls, current, pageVars,
                   extractiveVars, normalizeVars, taskVars, requestVars>>

\* playwright.stop() returns (line 39) and self.browser is set to None
\* (line 40).
CloseEnds ==
    /\ closer.pc = "stopping"
    /\ closedIds' = closedIds \cup {closer.target}
    /\ browser' = "none"
    /\ current' = 0
    /\ closer' = [pc |-> "done", target |-> 0]
    /\ UNCHANGED <<launches, calls, pageVars, extractiveVars, normalizeVars, taskVars,
                   requestVars>>

(***************************************************************************)
(* process_page as a task of the event loop                                *)
(***************************************************************************)

\* What the caller of a task sees first of the returned dict: result['success'].
ReturnedFlag(r) == IF r.success THEN "success" ELSE "failure"

\* The loop runs a pending task when no task holds it: process_page starts
\* as in ProcessPageCall.  The calls it makes from there to its return
\* (requests.post, time.sleep, model.generate_content) are synchronous, and
\* its two awaits are of coroutines that never suspend, so that the task
\* holds the loop until it returns.
TaskStart(t) ==
    /\ running = 0
    /\ tasks[t] = "pending"
    /\ pc = "idle"
    /\ firecrawl_key
    /\ \E u \in Urls : url' = u
    /\ entry' = "process_page"
    /\ stages' = <<"scrape">>
    /\ pc' = "requesting"
    /\ running' = t
    /\ tasks' = [tasks EXCEPT ![t] = "running"]
    /\ UNCHANGED <<keyVars, scrapeVars, content, title, genVars, result, endpointVars,
                   taskResult, extractiveVars, normalizeVars, cookieVars, requestVars>>

\* process_page returns: the task ends with its result, its locals are gone
\* and the loop is free.
TaskReturn ==
    /\ running # 0
    /\ pc = "done"
    /\ taskResult' = [taskResult EXCEPT ![running] = ReturnedFlag(result)]
    /\ tasks' = [tasks EXCEPT ![running] = "returned"]
    /\ running' = 0
    /\ pc' = "idle"
    /\ entry' = ""
    /\ url' = ""
    /\ attempts' = 0
    /\ tries' = <<>>
    /\ httpOutcome' = NoOutcome
    /\ sleeps' = <<>>
    /\ raised' = ""
    /\ scrapeResult' = NoScrapeResult
    /\ stages' = <<>>
    /\ content' = <<>>
    /\ title' = ""
    /\ genAttempts' = 0
    /\ genTries' = <<>>
    /\ genSleeps' = <<>>
    /\ genRaised' = ""
    /\ response' = <<>>
    /\ summaryResult' = NoSummary
    /\ sumError' = ""
    /\ result' = NoResult
    /\ UNCHANGED <<keyVars, endpointVars, extractiveVars, normalizeVars, cookieVars, requestVars>>

(***************************************************************************)
(* FireCrawlExtractor.scrape called on its own                             *)
(***************************************************************************)

\* scrape(url, bypass_cookies=...) up to its call of _make_scrape_request:
\* it builds req_body with the target-site headers and calls no method of
\* cookie_handler.
ScrapeCall ==
    /\ pc = "idle"
    /\ firecrawl_key
    /\ \E u \in Urls : url' = u
    /\ \E b \in BOOLEAN :
         /\ bypass' = b
         /\ reqHeaders' = target_site_headers(b)
    /\ entry' = "scrape"
    /\ pc' = "requesting"
    /\ UNCHANGED <<keyVars, scrapeVars, stages, content, title, genVars, result,
                   endpointVars, extractiveVars, normalizeVars, cookieVars, taskVars>>

(***************************************************************************)
(* Specifications                                                          *)
(***************************************************************************)

Next ==
    \/ ProcessPageCall
    \/ ScrapeAttempt
    \/ ScrapeBackoff
    \/ GenerateAttempt(PipeResponses)
    \/ GenerateBackoff
    \/ FireCrawlScrapeCall
    \/ EndpointRequest
    \/ LocalScrape

Spec == Init /\ [][Next]_vars

\* summarize called on its own, with the larger set of responses.
NextSummarize ==
    \/ SummarizeCall
    \/ GenerateAttempt(Responses)
    \/ GenerateBackoff

SpecSummarize == Init /\ [][NextSummarize]_vars

\* extractive_summarization called on its own.
NextExtractive ==
    \/ ExtractiveCall
    \/ ExtractiveRank

SpecExtractive == Init /\ [][NextExtractive]_vars

\* A normalizer applied on its own, twice.
NextNormalize ==
    \/ NormalizeCall
    \/ NormalizeAgain

SpecNormalize == Init /\ [][NextNormalize]_vars

\* process_page under fair scheduling: every external call returns or
\* raises in the end, and every backoff sleep ends.
NextLive ==
    \/ ProcessPageCall
    \/ ScrapeAttempt
    \/ ScrapeBackoff
    \/ GenerateAttempt(TaskResponses)
    \/ GenerateBackoff

Fairness ==
    /\ WF_vars(ScrapeAttempt)
    /\ WF_vars(ScrapeBackoff)
    /\ WF_vars(GenerateAttempt(TaskResponses))
    /\ WF_vars(GenerateBackoff)

SpecLive == Init /\ [][NextLive]_vars /\ Fairness

\* scrape called on its own, with and without bypass_cookies.
NextScrape ==
    \/ ScrapeCall
    \/ ScrapeAttempt
    \/ ScrapeBackoff

SpecScrape == Init /\ [][NextScrape]_vars

\* process_page tasks on one event loop.
NextTasks ==
    \/ \E t \in Tasks : TaskStart(t)
    \/ ScrapeAttempt
    \/ ScrapeBackoff
    \/ GenerateAttempt(TaskResponses)
    \/ GenerateBackoff
    \/ TaskReturn

SpecTasks == Init /\ [][NextTasks]_vars

\* accept_cookies calls on the singleton handler, interleaved at their awaits.
NextCookies ==
    \E c \in Calls :
        \/ AcceptCookiesCall(c)
        \/ SetupEnds(c)
        \/ OpenContext(c)
        \/ Navigate(c)
        \/ WaitForLoadState(c)
        \/ WaitForSelector(c)
        \/ Click(c)
        \/ Settle(c)
        \/ ReadCookies(c)
        \/ CloseContext(c)

\* The handler reads neither key: both are taken as set.
InitCookies == Init /\ gemini_key /\ firecrawl_key

SpecCookies == InitCookies /\ [][NextCookies]_vars

\* accept_cookies calls and one close() on the singleton handler.
NextClose ==
    \/ \E c \in Calls :
        \/ AcceptCookiesCall(c)
        \/ SetupEnds(c)
        \/ OpenContext(c)
        \/ Navigate(c)
        \/ WaitForLoadState(c)
        \/ WaitForSelector(c)
        \/ Click(c)
        \/ Settle(c)
        \/ ReadCookies(c)
        \/ CloseContext(c)
    \/ CloseCall
    \/ BrowserClosed
    \/ CloseEnds

SpecClose == InitCookies /\ [][NextClose]_vars

(***************************************************************************)
(* The claims                                                              *)
(***************************************************************************)

\* process_page has returned / scrape has returned to process_page.
PageReturned == entry = "process_page" /\ pc = "done"

ScrapeReturned == entry = "process_page" /\ scrapeResult.keys # {}

SummaryFields == {"summary", "keyPoints", "wordCount", "readingTime"}

\* C1: every result process_page returns has, when success is true, a
\* non-empty summary and a non-empty title or url, and when success is false a
\* non-empty error and none of the summary fields.
C1_ResultInvariant ==
    PageReturned =>
        /\ "success" \in result.keys
        /\ result.success =>
              /\ result.summary # <<>>
              /\ result.title # "" \/ result.url # ""
        /\ ~result.success =>
              /\ "error" \in result.keys
              /\ result.error # ""
              /\ result.keys \cap SummaryFields = {}

\* C2: scrape always returns a result with a boolean success, whatever the
\* HTTP call did, and a result with success false carries a non-empty error.
C2_ScrapeAlwaysTagged ==
    /\ entry = "process_page" /\ pc \in {"generating", "gen_backoff", "done"}
          => ScrapeReturned
    /\ ScrapeReturned =>
          /\ "success" \in scrapeResult.keys
          /\ scrapeResult.success \in BOOLEAN
          /\ ~scrapeResult.success =>
                "error" \in scrapeResult.keys /\ scrapeResult.error # ""

\* The remote scrape failed: the call raised, the status is not 2xx, the body
\* is no JSON object, or the service did not report success.
RemoteFailed(o) ==
    \/ o.exc # ""
    \/ ~(o.status \in 200..299)
    \/ o.body.json # "dict"
    \/ o.body.success # "true"

AllIn(seq, set) == \A i \in 1..Len(seq) : seq[i] \in set

\* C4: no call makes more than 3 attempts; one that fails with a transient
\* error on every attempt makes exactly 3 and the last exception leaves the
\* wrapper; one that succeeds on attempt k after k-1 transient failures makes
\* exactly k and its result is returned.  For both wrapped operations.
C4_RetryBound ==
    /\ attempts <= 3 /\ genAttempts <= 3
    /\ attempts = Len(tries) /\ genAttempts = Len(genTries)
    /\ ScrapeReturned =>
          /\ AllIn(SubSeq(tries, 1, attempts - 1), {"Timeout", "ConnectionError"})
          /\ AllIn(tries, {"Timeout", "ConnectionError"}) =>
                attempts = 3 /\ raised = tries[3]
          /\ tries[attempts] = "" =>
                /\ raised = ""
                /\ scrapeResult = ScrapeResponse(httpOutcome.status, httpOutcome.body)
    /\ pc = "done" /\ genAttempts > 0 =>
          /\ AllIn(SubSeq(genTries, 1, genAttempts - 1),
                   {"DeadlineExceeded", "ServiceUnavailable", "ResourceExhausted"})
          /\ AllIn(genTries, {"DeadlineExceeded", "ServiceUnavailable", "ResourceExhausted"})
                => genAttempts = 3 /\ genRaised = genTries[3]
          /\ genTries[genAttempts] = "" =>
                genRaised = "" /\ summaryResult.success

\* The request timed out twice and was answered on the third attempt.
C4_Witness ==
    /\ ScrapeReturned
    /\ tries = <<"Timeout", "Timeout", "">>
    /\ attempts = 3
    /\ scrapeResult.success

\* C5: the delay slept before the 2nd attempt is 2 seconds, the delay before
\* the 3rd is 4 seconds, and no delay exceeds 10 seconds.
C5_BackoffSchedule ==
    /\ Len(sleeps) >= 1 => sleeps[1] = 2
    /\ Len(sleeps) >= 2 => sleeps[2] = 4
    /\ Len(genSleeps) >= 1 => genSleeps[1] = 2
    /\ Len(genSleeps) >= 2 => genSleeps[2] = 4
    /\ \A i \in 1..Len(sleeps) : sleeps[i] <= 10
    /\ \A i \in 1..Len(genSleeps) : genSleeps[i] <= 10

\* C6: a request answered with an HTTP error status, or raising anything but
\* a timeout or connection error, is not retried: the exception leaves the
\* wrapper at once, no sleep follows it, and when it is the first request it
\* is the only one.
C6_NoRetryOnHttpError ==
    entry = "process_page" =>
        /\ attempts > 0 /\ httpOutcome.exc = "" /\ httpOutcome.status \in 400..599
              => tries[attempts] = "HTTPError"
        /\ \A i \in 1..Len(tries) :
              tries[i] \notin {"", "Timeout", "ConnectionError"} =>
                  /\ i = Len(tries)
                  /\ attempts = i
                  /\ pc = "done"
                  /\ Len(sleeps) = i - 1
                  /\ raised = tries[i]

\* A 500 on the first request: one attempt, no sleep.
C6_Witness ==
    /\ PageReturned
    /\ httpOutcome.exc = "" /\ httpOutcome.status = 500
    /\ attempts = 1 /\ sleeps = <<>> /\ raised = "HTTPError"

\* C7: process_page runs scrape, normalize, summarize in this order, each at
\* most once; the summarizer is called only after a successful scrape that
\* left non-empty cleaned text; a failed scrape is returned as it came, with
\* no other stage run, and empty cleaned text is a failure without a call of
\* the summarizer.
C7_StageOrder ==
    entry = "process_page" =>
        /\ stages \in {<<"scrape">>, <<"scrape", "normalize">>,
                       <<"scrape", "normalize", "summarize">>}
        /\ genAttempts > 0 \/ sumError # "" => stages[Len(stages)] = "summarize"
        /\ stages[Len(stages)] = "summarize" =>
              scrapeResult.success /\ content # <<>>
        /\ PageReturned /\ ~scrapeResult.success =>
              /\ stages = <<"scrape">>
              /\ genAttempts = 0
              /\ result.keys = scrapeResult.keys
              /\ ~result.success
              /\ result.error = scrapeResult.error
        /\ PageReturned /\ scrapeResult.success /\ content = <<>> =>
              /\ stages[Len(stages)] # "summarize"
              /\ genAttempts = 0
              /\ ~result.success
              /\ stages = <<"scrape", "normalize">>
                    => result.error = "Content empty after cleaning"

\* The cleaner left nothing of a scraped page and process_page returned.
C7_Witness ==
    /\ PageReturned
    /\ scrapeResult.success
    /\ stages = <<"scrape", "normalize">>
    /\ result.error = "Content empty after cleaning"

\* C8: scrape returns success with data exactly when the status is 2xx, the
\* body decodes as JSON, its success field is true itself and it has a data
\* field; the data is then the service's, unchanged; every other case is a
\* failure.
C8_ScrapeSuccessIff ==
    ScrapeReturned =>
        /\ scrapeResult.success <=>
              /\ httpOutcome.exc = ""
              /\ httpOutcome.status \in 200..299
              /\ httpOutcome.body.json # "undecodable"
              /\ httpOutcome.body.success = "true"
              /\ httpOutcome.body.data.present
        /\ scrapeResult.success =>
              /\ scrapeResult.keys = {"success", "data"}
              /\ scrapeResult.data = httpOutcome.body.data
        /\ ~scrapeResult.success => scrapeResult.keys = {"success", "error"}

\* A 201 with success true and a data payload.
C8_Witness ==
    /\ ScrapeReturned
    /\ httpOutcome.status = 201
    /\ scrapeResult.success
    /\ scrapeResult.data = ArticleData

\* The reading of a model answer the claims about summarize are stated in,
\* written from their words: where the separator line stands, the text
\* around it, trimming, lines, bullets.
SeparatorLine == <<"-", "-", "-", "K", "E", "Y", "P", "O", "I", "N", "T", "S", "-", "-", "-">>

SeparatorAt(text, p) ==
    /\ p + 14 <= Len(text)
    /\ \A k \in 1..15 : text[p + k - 1] = SeparatorLine[k]

HasSeparator(text) == \E p \in 1..Len(text) : SeparatorAt(text, p)

FirstSeparator(text) ==
    CHOOSE p \in 1..Len(text) :
        SeparatorAt(text, p) /\ \A q \in 1..(p - 1) : ~SeparatorAt(text, q)

TextBefore(text) == SubSeq(text, 1, FirstSeparator(text) - 1)

TextAfter(text) == SubSeq(text, FirstSeparator(text) + 15, Len(text))

Blank(c) == c = " " \/ c = "\n"

Trimmed(text) ==
    LET inked == {i \in 1..Len(text) : ~Blank(text[i])}
    IN  IF inked = {} THEN <<>>
        ELSE SubSeq(text, CHOOSE i \in inked : \A j \in inked : i <= j,
                          CHOOSE i \in inked : \A j \in inked : i >= j)

\* The lines of a text, as <<first, last>> positions, in order.
LineSpans(text) ==
    LET starts == {i \in 1..Len(text) : i = 1 \/ text[i - 1] = "\n"}
        EndOf(i) == CHOOSE e \in (i - 1)..Len(text) :
                        /\ e = Len(text) \/ text[e + 1] = "\n"
                        /\ \A k \in i..e : text[k] # "\n"
        Nth(n) == CHOOSE i \in starts : Cardinality({j \in starts : j < i}) = n - 1
    IN  [n \in 1..Cardinality(starts) |-> <<Nth(n), EndOf(Nth(n))>>]

\* A line without its leading bullet markers, trimmed.
Unmarked(line) ==
    LET body == {i \in 1..Len(line) : line[i] \notin {"*", "-"}}
    IN  IF body = {} THEN <<>>
        ELSE Trimmed(SubSeq(line, CHOOSE i \in body : \A j \in body : i <= j, Len(line)))

\* The key points of the text after the separator: its lines that, trimmed,
\* start with a bullet marker, unmarked, the empty ones left out.
BulletLines(text) ==
    LET spans == LineSpans(text)
        Line(n) == Trimmed(SubSeq(text, spans[n][1], spans[n][2]))
        kept == {n \in 1..Len(spans) :
                    /\ Line(n) # <<>>
                    /\ Line(n)[1] \in {"*", "-"}
                    /\ Unmarked(Line(n)) # <<>>}
        Pick(k) == CHOOSE n \in kept : Cardinality({m \in kept : m < n}) = k - 1
    IN  [k \in 1..Cardinality(kept) |-> Unmarked(Line(Pick(k)))]

\* summarize has returned a result for an answer of the model.
Summarized == pc = "done" /\ genAttempts > 0 /\ genRaised = ""

C10_NoSeparatorFallback ==
    Summarized /\ ~HasSeparator(response) =>
        /\ sumError = ""
        /\ summaryResult.success
        /\ summaryResult.summary = response
        /\ summaryResult.keyPoints = <<>>

\* An answer of bullet lines and no separator.
C10_Witness ==
    /\ Summarized /\ entry = "summarize"
    /\ ~HasSeparator(response)
    /\ response = <<"*", " ", "b", "\n", "a">>
    /\ summaryResult.success

\* The whitespace-separated tokens of a text, counted by their last letters.
TokenCount(text) ==
    Cardinality({i \in 1..Len(text) :
                    ~Blank(text[i]) /\ (i = Len(text) \/ Blank(text[i + 1]))})

\* C11: in every successful result of process_page, wordCount is the number
\* of whitespace-separated tokens of the summary, readingTime is
\* round(wordCount / 230), and both are the values summarize computed.
C11_WordCountReadingTime ==
    PageReturned /\ result.success =>
        /\ result.wordCount = TokenCount(result.summary)
        /\ result.readingTime = PyRoundDiv(result.wordCount, 230)
        /\ result.wordCount = summaryResult.wordCount
        /\ result.readingTime = summaryResult.readingTime

ProviderTransient == {"DeadlineExceeded", "ServiceUnavailable", "ResourceExhausted"}

\* The request ended as a failure that carries a message.
EndedAsFailure ==
    /\ pc = "done"
    /\ sumError # ""
    /\ summaryResult.keys = {}
    /\ entry = "process_page" =>
          ~result.success /\ "error" \in result.keys /\ result.error # ""

\* C12: a model call failing with any error but the three transient ones is
\* not retried (when it is the first call it is the only one, and no sleep
\* follows it) and the request ends as a failure with a message; a call
\* failing with a transient error is retried, up to 3 attempts, before the
\* failure is surfaced.
C12_ProviderErrors ==
    /\ \A i \in 1..Len(genTries) :
          genTries[i] \notin ProviderTransient \cup {""} =>
              /\ i = Len(genTries)
              /\ genAttempts = i
              /\ Len(genSleeps) = i - 1
              /\ genRaised = genTries[i]
              /\ EndedAsFailure
    /\ \A i \in 1..Len(genTries) :
          genTries[i] \in ProviderTransient /\ i < 3 =>
              Len(genTries) > i \/ pc \in {"gen_backoff", "generating"}
    /\ genTries # <<>> /\ AllIn(genTries, ProviderTransient) /\ pc = "done" =>
          genAttempts = 3 /\ EndedAsFailure

\* The model refused the first call of a page's summary.
C12_Witness ==
    /\ PageReturned
    /\ genTries = <<"InvalidArgument">>
    /\ genSleeps = <<>>
    /\ ~result.success

\* summarize was entered, from process_page or on its own, and has ended.
SummarizerEnded ==
    /\ pc = "done"
    /\ Len(stages) > 0
    /\ stages[Len(stages)] = "summarize"

\* C13: with no model credential configured, the summarizer makes no model
\* call and returns a summary with an empty key-point list, not a failure.
C13_NoCredentialFallback ==
    SummarizerEnded /\ ~gemini_key =>
        /\ genAttempts = 0
        /\ sumError = ""
        /\ "summary" \in summaryResult.keys
        /\ summaryResult.keyPoints = <<>>
        /\ entry = "process_page" => result.success

\* The sentences of a text at the positions S, in the order of the text,
\* joined by a space.
Picked(sentences, S) ==
    Join([k \in 1..Cardinality(S) |-> sentences[Ascending(S)[k]]], <<" ">>)

\* C14: for a text of n sentences and a target of N, the extractive
\* summarizer returns exactly min(n, N) sentences of the text, verbatim and
\* in the order of the text; when n > N they are N sentences that no sentence
\* left out outranks.
C14_ExtractiveSelection ==
    exPc = "done" =>
        \E S \in SUBSET (1..Len(sent_tokenize(exText))) :
            /\ Cardinality(S) = Min2(Len(sent_tokenize(exText)), exTarget)
            /\ exOut = Picked(sent_tokenize(exText), S)
            /\ Len(sent_tokenize(exText)) > exTarget /\ exRaised = "" =>
                  \A i \in S, j \in (1..Len(sent_tokenize(exText))) \ S :
                      exScores[i] >= exScores[j]

\* C15: both normalizers are idempotent: applied to its own output, each
\* returns that output unchanged.
C15_Idempotent == nzPc = "twice" => nzTwice = nzOnce

\* re.search(re, s): the pattern matches somewhere in s.
Found(re, s) == \E i \in 1..(Len(s) + 1) : Match(re, s, i, <<1, 1>>) # <<>>

\* ![...](...)
ReImage ==
    ReSeq(<<ReLit(<<"!", "[">>), ReStar(ReNot({"]"})), ReLit(<<"]", "(">>),
            ReStar(ReNot({")"})), ReSet({")"})>>)

\* C16: the output of either normalizer holds no markdown image, no raw URL
\* and no citation marker.
C16_NoLeakage ==
    nzPc # "idle" =>
        /\ ~Found(ReImage, nzOnce)
        /\ ~Contains(nzOnce, <<"h", "t", "t", "p", ":", "/", "/">>)
        /\ ~Found(ReCitation, nzOnce)

\* C17: a call whose browser launch failed has returned the failure envelope
\* and opened nothing; failed launches record no browser; and a call that
\* finds no browser recorded attempts the launch itself.
C17_LaunchFailure ==
    /\ \A c \in Calls :
          calls[c].launch = "failed" =>
              /\ calls[c].pc = "done"
              /\ calls[c].result = CookieFailure("Failed to initialize browser")
              /\ calls[c].context = "none"
    /\ launches = 0 => browser = "none"
    /\ \A c \in Calls :
          calls[c].pc # "idle" /\ ~calls[c].saw =>
              calls[c].pc = "launching" \/ calls[c].launch # ""

\* One call failed to launch the browser, the other launched it and returned
\* the cookies.
C17_Witness ==
    \E c, d \in Calls :
        /\ calls[c].launch = "failed"
        /\ calls[d].launch = "ok"
        /\ launches = 1
        /\ calls[d].pc = "done"
        /\ calls[d].result.success

\* C18: a timeout of the navigation or of the network-idle wait is not
\* fatal: every call that opened its context and returned has searched for
\* the consent control and returned success.
C18_TimeoutNonFatal ==
    \A c \in Calls :
        calls[c].pc = "done" /\ calls[c].context # "none" =>
            /\ calls[c].result.success
            /\ calls[c].tried # <<>>

\* The selectors of a call's page among those it tried before the last one.
MatchedBeforeLast(c) ==
    {k \in 1..(Len(calls[c].tried) - 1) : calls[c].tried[k] \in calls[c].page}

\* The selectors a call tried are the first of the cascade, in its order,
\* the site-specific ones before the generic ones.
InCascadeOrder(c) ==
    /\ calls[c].tried = SubSeq(selectors, 1, Len(calls[c].tried))
    /\ \A k, l \in 1..Len(calls[c].tried) :
          calls[c].tried[k] \in SiteSpecific /\ calls[c].tried[l] \in Generic => k < l

\* C19 as stated: the selectors are tried in cascade order, no selector is
\* tried after one with a visible match, and at most one click is made, on
\* that match.
C19_FirstMatchOnly ==
    \A c \in Calls :
        /\ InCascadeOrder(c)
        /\ MatchedBeforeLast(c) = {}
        /\ Len(calls[c].clicks) <= 1
        /\ \A j \in 1..Len(calls[c].clicks) :
              calls[c].clicks[j].selector = calls[c].tried[Len(calls[c].tried)]

\* C19: the selectors are tried in cascade order; every selector with a
\* visible match is clicked when it is reached; a click that returns ends
\* the search, so that it is the last click and on the last selector tried;
\* the search goes on past a visible match only when its click raised.
C19_CascadeOrder ==
    \A c \in Calls :
        /\ InCascadeOrder(c)
        /\ \A j \in 1..Len(calls[c].clicks) :
              /\ calls[c].clicks[j].selector \in calls[c].page
              /\ calls[c].clicks[j].clicked =>
                    /\ j = Len(calls[c].clicks)
                    /\ calls[c].clicks[j].selector = calls[c].tried[Len(calls[c].tried)]
                    /\ calls[c].pc \in {"settling", "capturing", "closing", "done"}
        /\ \A k \in MatchedBeforeLast(c) :
              \E j \in 1..Len(calls[c].clicks) :
                  calls[c].clicks[j] = [selector |-> calls[c].tried[k], clicked |-> FALSE]
        /\ \A k \in 1..Len(calls[c].tried) :
              calls[c].tried[k] \in calls[c].page =>
                  \/ \E j \in 1..Len(calls[c].clicks) :
                        calls[c].clicks[j].selector = calls[c].tried[k]
                  \/ k = Len(calls[c].tried) /\ calls[c].pc = "clicking"

\* A call whose click on the site-specific match raised clicked the generic
\* one and returned.
C19_Witness ==
    \E c \in Calls :
        /\ calls[c].pc = "done"
        /\ calls[c].clicks = <<[selector |-> selectors[2], clicked |-> FALSE],
                               [selector |-> selectors[6], clicked |-> TRUE]>>
        /\ Len(calls[c].tried) = 6
        /\ calls[c].result.success

\* A call has waited for every selector of the cascade and none was visible.
NoMatch(c) ==
    /\ calls[c].tried = selectors
    /\ \A k \in 1..Len(selectors) : selectors[k] \notin calls[c].page

\* C20: a call that found no visible match for any selector does not fail: it
\* goes on to read the cookie jar and returns success with those cookies,
\* having clicked nothing.
C20_NoMatchStillSucceeds ==
    \A c \in Calls :
        NoMatch(c) =>
            /\ calls[c].clicks = <<>>
            /\ calls[c].pc \in {"capturing", "closing", "done"}
            /\ calls[c].pc = "done" =>
                  /\ calls[c].result = CookieSuccess(calls[c].jar)
                  /\ calls[c].jar = <<"session">>
                  /\ calls[c].context = "closed"

\* A call returned from a page without consent control.
C20_Witness ==
    \E c \in Calls :
        /\ NoMatch(c)
        /\ calls[c].pc = "done"
        /\ calls[c].result.success
        /\ calls[c].result.cookies = <<"session">>

\* C21: a call that returned success has closed its context, and the browser
\* is still up; a context is closed only once its cookies have been read and
\* the call is returning; and a call that found the browser up launches none.
C21_ContextClosedBrowserKept ==
    \A c \in Calls :
        /\ calls[c].result.success =>
              calls[c].context = "closed" /\ browser = "up"
        /\ calls[c].context = "closed" =>
              /\ calls[c].pc = "done"
              /\ calls[c].result = CookieSuccess(calls[c].jar)
        /\ calls[c].pc = "closing" =>
              calls[c].context = "open" /\ calls[c].result.cookies = calls[c].jar
        /\ calls[c].saw => calls[c].launch = "" /\ calls[c].pc # "launching"

\* One call launched the browser and returned the cookies; the other found
\* the browser up, launched none and returned the cookies too.
C21_Witness ==
    \E c, d \in Calls :
        /\ calls[c].launch = "ok" /\ calls[c].result.success
        /\ calls[d].saw /\ calls[d].result.success
        /\ calls[d].context = "closed"
        /\ launches = 1
        /\ browser = "up"

\* C22: however the calls interleave, the browser is launched at most once,
\* and every call that opened a context found the browser up or launched it.
C22_OneBrowser ==
    /\ launches <= 1
    /\ \A c \in Calls :
          calls[c].context # "none" => calls[c].saw \/ calls[c].launch = "ok"

\* A task is waiting on its scrape request, its model call or a backoff.
TaskWaiting == running # 0 /\ pc \in WaitingStates

\* The loop can run task t now.
CanStart(t) == tasks[t] = "pending" /\ running = 0

\* C23: while one process_page call waits on its scrape request, its model
\* call or a backoff sleep, a concurrent call that has not started yet can
\* start.
C23_ProgressWhileWaiting ==
    \A t \in Tasks : TaskWaiting /\ tasks[t] = "pending" => CanStart(t)

\* The result the local scraper returned to the endpoint.
LocalReturned == pc = "done" /\ endpointResult.source = "local"

\* C24: the local scraper returns a result whose title, html and markdown
\* are all non-null, for any target page; on total failure the result is
\* the placeholder with its error text.
C24_LocalResultNonNull ==
    LocalReturned =>
        /\ endpointResult.local.title # NONE
        /\ endpointResult.local.html # NONE
        /\ endpointResult.local.markdown # NONE
        /\ endpointResult.local.placeholder =>
              /\ endpointResult.local.title = "Error Scraping Content"
              /\ endpointResult.local.markdown # <<>>

\* scrape, called on its own, has built its request.
ScrapeCalled == entry = "scrape" /\ pc # "idle"

\* The consent automator has been run.
ConsentRun == \E c \in Calls : calls[c].pc # "idle"

\* C25: scrape with bypass_cookies=True runs the consent automator and puts
\* the captured cookies, as one Cookie header value in jar order, into the
\* target-site headers of its request; with bypass_cookies=False it runs no
\* automation and sends no Cookie header.
C25_BypassCookies ==
    ScrapeCalled =>
        /\ bypass =>
              /\ ConsentRun
              /\ "Cookie" \in reqHeaders.keys
              /\ \E jar \in Jars :
                    reqHeaders.Cookie = format_cookies_for_firecrawl(jar).Cookie
        /\ ~bypass => ~ConsentRun /\ "Cookie" \notin reqHeaders.keys

\* C28: every browsing context a call of accept_cookies has opened is
\* closed when that call has returned, whether it returned a success or a
\* failure.
C28_ContextReleased ==
    \A c \in Calls : calls[c].pc = "done" => calls[c].context # "open"

\* Call c is between its check of self.browser and its return, with a
\* browser to work on.
Working(c) == calls[c].pc \notin {"idle", "launching", "done"}

\* C29: no call of accept_cookies works on a browser that close() has
\* closed, for any interleaving of the calls with close().
C29_NoClosedBrowserUse ==
    \A c \in Calls : Working(c) => ~Dead(c)

\* The two shapes of what accept_cookies returns.
SuccessShape(r) == r.keys = {"success", "cookies"} /\ r.success /\ r.error = ""

FailureShape(r) ==
    r.keys = {"success", "error"} /\ ~r.success /\ r.error # "" /\ r.cookies = <<>>

\* C26: every call of accept_cookies that has ended has returned either a
\* success with its cookies or a failure with its error, never both and
\* never neither, whichever of its steps failed; a call that has not ended
\* has returned nothing.
C26_CookieResultShape ==
    \A c \in Calls :
        /\ calls[c].pc = "done" =>
              SuccessShape(calls[c].result) \/ FailureShape(calls[c].result)
        /\ calls[c].pc # "done" => calls[c].result.keys = {}
        /\ calls[c].pc \in {"idle", "launching", "context", "navigating", "loading",
                            "searching", "clicking", "settling", "capturing",
                            "closing", "done"}

\* One call failed at its context creation and the other at its cookie
\* read or its context close, both on a browser closed under them.
C26_Witness ==
    \E c, d \in Calls :
        /\ calls[c].pc = "done" /\ calls[c].context = "none" /\ calls[c].on # 0
        /\ calls[c].result = CookieFailure(TargetClosed)
        /\ calls[d].pc = "done" /\ calls[d].context = "open"
        /\ calls[d].result = CookieFailure(TargetClosed)
        /\ Len(calls[d].tried) = Len(selectors)

\* C27: every call of process_page returns in the end, given that each
\* scrape request and each model call returns or raises and each backoff
\* sleep ends: the retries are bounded.
C27_EventuallyReturns == (entry = "process_page") ~> PageReturned

\* A call returned after both wrappers had used all their attempts but the
\* last.
C27_Witness ==
    /\ PageReturned
    /\ Len(sleeps) = MaxAttempts - 1
    /\ Len(genSleeps) = GenMaxAttempts - 1

\* C30: for an answer of the model that contains the separator, the summary
\* that summarize returns does not contain the separator, and so none of
\* what follows it, also when only white space precedes the separator.
C30_SummaryWithoutSeparator ==
    Summarized /\ entry = "summarize" /\ HasSeparator(response) =>
        ~HasSeparator(summaryResult.summary)

====
